---- MODULE Spec2Model ----
(***************************************************************************)
(* immufs: a FUSE filesystem whose inodes and contents live in two tables  *)
(* of an external store.  The model follows the current sources:           *)
(*   src/unnamed/part_000   package fs, Immufs (the kernel-facing handlers)*)
(*   src/pkg/fs/inode.go    package fs, Inode (the in-memory inode object) *)
(*   src/unnamed/part_001   package fs, ImmuDbClient (the store gateway)   *)
(* Every gateway call (one SQL statement) is one atomic step; a handler is *)
(* a thread walking through its gateway calls with its own in-memory       *)
(* copies of the inodes it loaded.                                         *)
(***************************************************************************)
EXTENDS Integers, Sequences, FiniteSets, TLC

(***************************************************************************)
(* Bounds of the model.                                                    *)
(***************************************************************************)
\* handler invocations dispatched in one behaviour of Spec
MaxOps == 3
\* handler invocations dispatched in one behaviour of SpecSeq
MaxOpsSeq == 4
\* handler invocations dispatched in one behaviour of SpecNames
MaxOpsNames == 3
\* handler invocations dispatched in one behaviour of SpecNamesSeq
MaxOpsNamesSeq == 4
\* handler invocations dispatched in one behaviour of SpecLife
MaxOpsLife == 6
\* handler invocations dispatched in one behaviour of SpecRoot
MaxOpsRoot == 4
\* largest reference count a ForgetInode of the root carries
MaxForgetRoot == 2
\* handler invocations dispatched in one behaviour of SpecFile
MaxOpsFile == 4
\* largest offset / size / length argument of a request of SpecFile
MaxFileOff == 2
\* longest byte string a WriteFile request of SpecFile carries
MaxFileData == 2
\* handler invocations dispatched in one behaviour of SpecType
MaxOpsType == 3
\* longest byte string a WriteFile request carries
MaxData == 1
\* largest offset / size / length argument of a file request
MaxOff == 1

Threads == {"t1", "t2"}
NoThread == "none"
Names == {"a", "b"}
Pids == {0, 1}

(***************************************************************************)
(* Inode records (src/pkg/fs/inode.go, type Inode).  Mode keeps the two    *)
(* type bits the helpers test and the permission bits as one token.  Of    *)
(* the four timestamps only Mtime is kept; time.Now() is the token "now".  *)
(* Uid and Gid are set by NewInode and never written again.                *)
(***************************************************************************)
DirMode(perm) == [dir |-> TRUE, symlink |-> FALSE, perm |-> perm]
FileMode(perm) == [dir |-> FALSE, symlink |-> FALSE, perm |-> perm]

isDir(in) == in.Mode.dir
isSymlink(in) == in.Mode.symlink
isFile(in) == ~(isDir(in) \/ isSymlink(in))

\* The owner NewImmufs takes from the configuration (fs.uid, fs.gid) and
\* every handler that creates an inode passes on to NewInode.
CfgUid == 1000
CfgGid == 100

NilInode == [Inumber |-> 0, Size |-> 0, Nlink |-> 0, Mode |-> FileMode("0"),
             Mtime |-> "zero", Uid |-> 0, Gid |-> 0, ToBeDeleted |-> FALSE]

\* The record NewInode builds from the attributes its callers pass.
NewInodeRec(inumber, mode) ==
  [Inumber |-> inumber, Size |-> 0, Nlink |-> 1, Mode |-> mode,
   Mtime |-> "now", Uid |-> CfgUid, Gid |-> CfgGid, ToBeDeleted |-> FALSE]

\* The root record of NewImmufs: mode 0700 | os.ModeDir, Nlink 1.
RootInode == NewInodeRec(1, DirMode("0700"))

(***************************************************************************)
(* Directory entries (fuseutil.Dirent) and their list operations.          *)
(* Positions are 1-based here, so the code's index i is position i+1 and   *)
(* the Offset the code stores (index + 1) is the position itself.          *)
(***************************************************************************)
DT_Unknown == "DT_Unknown"
DT_File == "DT_File"
DT_Directory == "DT_Directory"

Dirent(offset, id, name, dt) ==
  [Offset |-> offset, Inode |-> id, Name |-> name, Type |-> dt]

\* The slot RemoveChild leaves behind: Dirent{Type: DT_Unknown, Offset: i+1}.
FreeDirent(offset) == Dirent(offset, 0, "", DT_Unknown)

\* findChild: the position of the first entry called name, 0 when none.
\* The comparison is on the name alone, as in the code.
findChild(entries, name) ==
  IF \E i \in 1..Len(entries) : entries[i].Name = name
  THEN CHOOSE i \in 1..Len(entries) :
         /\ entries[i].Name = name
         /\ \A j \in 1..(i - 1) : entries[j].Name # name
  ELSE 0

\* LookUpChild (through findChild2): id, type and ok.
LookUpChild(entries, name) ==
  LET i == findChild(entries, name) IN
  IF i = 0 THEN [ok |-> FALSE, id |-> 0, typ |-> DT_Unknown]
  ELSE [ok |-> TRUE, id |-> entries[i].Inode, typ |-> entries[i].Type]

\* A count that takes free slots for entries.
DirLenSlots(entries) == Len(entries)

\* Len: the number of entries that are not free.
DirLen(entries) ==
  Cardinality({i \in 1..Len(entries) : entries[i].Type # DT_Unknown})

\* An AddChild that appends whether or not a slot is free.
AddChildAppends(entries, id, name, dt) ==
  Append(entries, Dirent(Len(entries) + 1, id, name, dt))

\* The entry list AddChild writes back: the first free slot is overwritten,
\* otherwise the entry is appended; either way Offset is the position.
AddChildEntries(entries, id, name, dt) ==
  IF \E i \in 1..Len(entries) : entries[i].Type = DT_Unknown
  THEN LET index == CHOOSE i \in 1..Len(entries) :
                      /\ entries[i].Type = DT_Unknown
                      /\ \A j \in 1..(i - 1) : entries[j].Type # DT_Unknown
       IN [entries EXCEPT ![index] = Dirent(index, id, name, dt)]
  ELSE Append(entries, Dirent(Len(entries) + 1, id, name, dt))

\* The entry list RemoveChild writes back (name is present: i > 0).
RemoveChildEntries(entries, name) ==
  LET i == findChild(entries, name) IN
  [entries EXCEPT ![i] = FreeDirent(i)]

(***************************************************************************)
(* fuseutil.WriteDirent (the transport library): a dirent takes a 24-byte  *)
(* header and its name padded to a multiple of 8, and is written only when *)
(* it fits in what is left of the buffer (0 bytes otherwise).              *)
(***************************************************************************)
DirentSize(e) == 24 + 8 * ((Len(e.Name) + 7) \div 8)

\* The loop of Inode.ReadDir: from index offset on, free entries are
\* skipped, the first entry that does not fit ends the loop.  The result is
\* the sequence of entries written into a buffer of room bytes.
RECURSIVE ReadDirFrom(_, _, _)
ReadDirFrom(entries, pos, room) ==
  IF pos > Len(entries) THEN <<>>
  ELSE IF entries[pos].Type = DT_Unknown THEN ReadDirFrom(entries, pos + 1, room)
  ELSE IF DirentSize(entries[pos]) > room THEN <<>>
  ELSE <<entries[pos]>> \o
       ReadDirFrom(entries, pos + 1, room - DirentSize(entries[pos]))

\* A ReadDir that starts at the entry the cookie belongs to.
ReadDirFromCookie(entries, offset, room) ==
  ReadDirFrom(entries, IF offset = 0 THEN 1 ELSE offset, room)

ReadDirEntries(entries, offset, room) == ReadDirFrom(entries, offset + 1, room)

RECURSIVE SumSizes(_)
SumSizes(es) == IF es = <<>> THEN 0 ELSE DirentSize(Head(es)) + SumSizes(Tail(es))

\* The byte count Inode.ReadDir returns.
ReadDirBytes(entries, offset, room) == SumSizes(ReadDirEntries(entries, offset, room))

\* var buf [4096]byte in Rename
RenameBufSize == 4096

(***************************************************************************)
(* Blobs (table content).  A blob is a byte string; json tells whether the *)
(* bytes are the JSON text marshalDirents produced for ents.  The text of  *)
(* a list is kept as its length in bytes of the token JsonByte.            *)
(***************************************************************************)
JsonByte == 91

DirBlob(entries) == [json |-> TRUE, ents |-> entries, data |-> <<>>]
FileBlob(bytes) == [json |-> FALSE, ents |-> <<>>, data |-> bytes]

\* {"Offset":o,"Inode":i,"Name":"n","Type":t} with one-digit numbers
RECURSIVE MarshalEntriesLen(_)
MarshalEntriesLen(es) ==
  IF es = <<>> THEN 0
  ELSE 41 + Len(Head(es).Name) + (IF Len(es) > 1 THEN 1 ELSE 0)
       + MarshalEntriesLen(Tail(es))

\* len(json.Marshal(entries)): the two brackets, the entries, the commas.
MarshalLen(entries) == 2 + MarshalEntriesLen(entries)

BlobBytes(b) ==
  IF b.json THEN [k \in 1..MarshalLen(b.ents) |-> JsonByte] ELSE b.data

\* The blob a byte string is, given the blob prev it was read from: the
\* unchanged JSON text is still that list, anything else is plain bytes.
AsBlob(bytes, prev) ==
  IF prev.json /\ bytes = BlobBytes(prev) THEN prev ELSE FileBlob(bytes)

Zeros(n) == [k \in 1..n |-> 0]

(***************************************************************************)
(* The store gateway (ImmuDbClient) over the two tables, each a function   *)
(* from the inumbers that have a row.                                      *)
(***************************************************************************)
Upsert(tbl, key, val) ==
  [k \in (DOMAIN tbl) \cup {key} |-> IF k = key THEN val ELSE tbl[k]]

Delete(tbl, key) == [k \in (DOMAIN tbl) \ {key} |-> tbl[k]]

\* SELECT MAX(inumber) FROM inode, plus one (1 on an empty table).
NextInumber(itbl) ==
  IF DOMAIN itbl = {} THEN 1
  ELSE (CHOOSE m \in DOMAIN itbl : \A k \in DOMAIN itbl : k <= m) + 1

\* GetChildren fails when the row is missing or does not unmarshal.
GetChildrenOk(ctbl, i) == i \in DOMAIN ctbl /\ ctbl[i].json
GetChildren(ctbl, i) == ctbl[i].ents

\* ReadContent: a missing row reads as the empty byte string.
ReadContent(ctbl, i) == IF i \in DOMAIN ctbl THEN BlobBytes(ctbl[i]) ELSE <<>>
PrevBlob(ctbl, i) == IF i \in DOMAIN ctbl THEN ctbl[i] ELSE FileBlob(<<>>)

RECURSIVE SumSize(_, _)
SumSize(itbl, S) ==
  IF S = {} THEN 0
  ELSE LET k == CHOOSE x \in S : TRUE IN itbl[k].Size + SumSize(itbl, S \ {k})

\* SELECT SUM(size) FROM inode
SpaceUsed(itbl) == SumSize(itbl, DOMAIN itbl)

(***************************************************************************)
(* State.                                                                  *)
(*   inode, content  the two tables of the store                           *)
(*   mu              fs.mu: the thread holding it, or NoThread             *)
(*   pc, op, loc     per thread: position in its handler, the request it   *)
(*                   serves, its in-memory inode objects and locals        *)
(*   ret             per thread: what its last handler returned            *)
(*   alive           FALSE once a handler panicked (the process is gone)   *)
(*   krefs           the kernel's side: references it holds per inumber,   *)
(*                   one per entry reply, less the forgets it had accepted *)
(*   allocated       the inumbers allocateInode handed out, in order       *)
(*   unlinked        the inumbers whose name Unlink or RmDir removed while *)
(*                   the kernel held a reference, until handed out again   *)
(*   fuel            handler invocations still to dispatch                 *)
(* The d* variables belong to SpecDir (the entry-list operations alone).   *)
(***************************************************************************)
VARIABLES inode, content, mu, pc, op, loc, ret, alive, krefs, allocated,
          unlinked, fuel, dEnts, dCookie, dSeen, dStable, dDone

store == <<inode, content>>
dvars == <<dEnts, dCookie, dSeen, dStable, dDone>>
fsvars == <<inode, content, mu, pc, op, loc, ret, alive, krefs, allocated,
            unlinked, fuel>>
vars == <<inode, content, mu, pc, op, loc, ret, alive, krefs, allocated,
          unlinked, fuel, dEnts, dCookie, dSeen, dStable, dDone>>

NoOp ==
  [name |-> "none", pid |-> 1, inode |-> 0, nm |-> "", inode2 |-> 0, nm2 |-> "",
   mode |-> FileMode("0"), hasSize |-> FALSE, size |-> 0, hasMode |-> FALSE,
   hasMtime |-> FALSE, mtime |-> "zero", handle |-> FALSE, data |-> <<>>,
   off |-> 0, length |-> 0, fmode |-> 0, n |-> 0, room |-> 0]

NoLoc ==
  [par |-> NilInode, npar |-> NilInode, chi |-> NilInode, childID |-> 0,
   childType |-> DT_Unknown, existingID |-> 0, ents |-> <<>>, bytes |-> <<>>,
   phase |-> "", err |-> "OK"]

KRef(i) == IF i \in DOMAIN krefs THEN krefs[i] ELSE 0

\* The inumbers the kernel may name in a request: the root and those it
\* holds a reference to.  It sends directory requests to what it knows as a
\* directory and file requests to what it knows as a file.
Known == {1} \cup {i \in DOMAIN krefs : krefs[i] > 0}
KnownDirs == {i \in Known : i \in DOMAIN inode => isDir(inode[i])}
KnownFiles == {i \in Known : i \in DOMAIN inode => isFile(inode[i])}

InitFS ==
  /\ inode = [i \in {1} |-> RootInode]
  /\ content = [i \in {1} |-> DirBlob(<<>>)]
  /\ mu = NoThread
  /\ pc = [t \in Threads |-> "idle"]
  /\ op = [t \in Threads |-> NoOp]
  /\ loc = [t \in Threads |-> NoLoc]
  /\ ret = [t \in Threads |-> "none"]
  /\ alive = TRUE
  /\ krefs = [i \in {} |-> 0]
  /\ allocated = <<>>
  /\ unlinked = {}

InitDirIdle ==
  /\ dEnts = <<>>
  /\ dCookie = 0
  /\ dSeen = <<>>
  /\ dStable = {}
  /\ dDone = FALSE

(***************************************************************************)
(* How a step leaves its thread.                                           *)
(***************************************************************************)
\* The kernel hands a request to the first worker that is free.
Idle(t) ==
  /\ alive
  /\ pc[t] = "idle"
  /\ fuel > 0
  /\ t = "t1" \/ pc["t1"] # "idle"
At(t, label) == alive /\ pc[t] = label

Goto(t, label, newloc) ==
  /\ pc' = [pc EXCEPT ![t] = label]
  /\ loc' = [loc EXCEPT ![t] = newloc]
  /\ UNCHANGED <<op, ret, mu, alive, dvars>>

\* A return that keeps fs.mu.
LeaveLocked(t, code) ==
  /\ op' = [op EXCEPT ![t] = NoOp]
  /\ pc' = [pc EXCEPT ![t] = "idle"]
  /\ loc' = [loc EXCEPT ![t] = NoLoc]
  /\ ret' = [ret EXCEPT ![t] = code]
  /\ UNCHANGED <<mu, alive, dvars>>

\* return: the deferred fs.mu.Unlock() runs when the thread holds the lock.
Return(t, code) ==
  /\ op' = [op EXCEPT ![t] = NoOp]
  /\ pc' = [pc EXCEPT ![t] = "idle"]
  /\ loc' = [loc EXCEPT ![t] = NoLoc]
  /\ ret' = [ret EXCEPT ![t] = code]
  /\ mu' = IF mu = t THEN NoThread ELSE mu
  /\ UNCHANGED <<alive, dvars>>

\* panic (the OrDie helpers, the type assertions): deferred unlocks run and
\* the process ends, no handler takes another step.
Panic(t) ==
  /\ pc' = [pc EXCEPT ![t] = "panic"]
  /\ mu' = IF mu = t THEN NoThread ELSE mu
  /\ alive' = FALSE
  /\ UNCHANGED <<op, loc, ret, dvars>>

\* Of a request that the pid check turns away only the caller stays on
\* record.
Checked(request) ==
  IF request.pid = 0 THEN [NoOp EXCEPT !.pid = 0] ELSE request

\* The kernel hands a request to thread t.
Start(t, request) ==
  /\ Idle(t)
  /\ op' = [op EXCEPT ![t] = request]
  /\ fuel' = fuel - 1

\* if op.OpContext.Pid == 0 { return fuse.EINVAL }
PidCheck(t, pid, label) ==
  /\ pc' = [pc EXCEPT ![t] = IF pid = 0 THEN "idle" ELSE label]
  /\ ret' = [ret EXCEPT ![t] = IF pid = 0 THEN "EINVAL" ELSE @]
  /\ UNCHANGED <<loc, mu, alive, dvars>>

\* The first gateway call of each handler that takes fs.mu.
Entry(name) ==
  CASE name = "StatFS" -> "sf_space"
    [] name = "LookUpInode" -> "lu_parent"
    [] name = "GetInodeAttributes" -> "ga_get"
    [] name = "SetInodeAttributes" -> "sa_get"
    [] name \in {"MkDir", "MkNode", "CreateFile"} -> "cr_parent"
    [] name = "Rename" -> "rn_oldparent"
    [] name \in {"RmDir", "Unlink"} -> "ul_parent"
    [] name = "OpenDir" -> "od_get"
    [] name = "ReadDir" -> "rd_get"
    [] name = "OpenFile" -> "of_get"
    [] name = "ReadFile" -> "rf_get"
    [] name = "WriteFile" -> "wf_get"
    [] name = "Fallocate" -> "fa_get"
    [] OTHER -> "idle"

\* A lock that is granted while another thread holds it.
LockNotExclusive(t) ==
  /\ At(t, "lock")
  /\ mu' = t
  /\ pc' = [pc EXCEPT ![t] = Entry(op[t].name)]
  /\ UNCHANGED <<inode, content, op, loc, ret, alive, krefs, allocated,
                 unlinked, fuel, dvars>>

\* fs.mu.Lock()
Acquire(t) ==
  /\ At(t, "lock")
  /\ mu = NoThread
  /\ mu' = t
  /\ pc' = [pc EXCEPT ![t] = Entry(op[t].name)]
  /\ UNCHANGED <<inode, content, op, loc, ret, alive, krefs, allocated,
                 unlinked, fuel, dvars>>

(***************************************************************************)
(* StatFS: no pid check; SpaceUsed, then nextInumber.                      *)
(***************************************************************************)
StatFSBegin(t) ==
  \E pid \in Pids :
    /\ Start(t, [NoOp EXCEPT !.name = "StatFS", !.pid = pid])
    /\ pc' = [pc EXCEPT ![t] = "lock"]
    /\ UNCHANGED <<loc, ret, mu, alive, dvars>>
    /\ UNCHANGED <<inode, content, krefs, allocated, unlinked>>

StatFSSpaceUsed(t) ==
  /\ At(t, "sf_space")
  /\ Goto(t, "sf_next", [loc[t] EXCEPT !.childID = SpaceUsed(inode)])
  /\ UNCHANGED <<inode, content, krefs, allocated, unlinked, fuel>>

StatFSNextInumber(t) ==
  /\ At(t, "sf_next")
  /\ Return(t, "OK")
  /\ UNCHANGED <<inode, content, krefs, allocated, unlinked, fuel>>

StatFS(t) == StatFSBegin(t) \/ StatFSSpaceUsed(t) \/ StatFSNextInumber(t)

(***************************************************************************)
(* LookUpInode                                                             *)
(***************************************************************************)
LookUpInodeReq(t, pid, parent, name) ==
  /\ Start(t, Checked([NoOp EXCEPT !.name = "LookUpInode", !.pid = pid,
                                   !.inode = parent, !.nm = name]))
  /\ PidCheck(t, pid, "lock")
  /\ UNCHANGED <<inode, content, krefs, allocated, unlinked>>

LookUpInodeBegin(t) ==
  \E pid \in Pids, parent \in KnownDirs, name \in Names :
    LookUpInodeReq(t, pid, parent, name)

\* inode := fs.getInodeOrDie(op.Parent)
LookUpInodeParent(t) ==
  /\ At(t, "lu_parent")
  /\ IF op[t].inode \in DOMAIN inode
     THEN Goto(t, "lu_children", [loc[t] EXCEPT !.par = inode[op[t].inode]])
     ELSE Panic(t)
  /\ UNCHANGED <<inode, content, krefs, allocated, unlinked, fuel>>

\* childID, _, ok := inode.LookUpChild(op.Name)
LookUpInodeChildren(t) ==
  /\ At(t, "lu_children")
  /\ IF isDir(loc[t].par) /\ GetChildrenOk(content, loc[t].par.Inumber)
     THEN LET r == LookUpChild(GetChildren(content, loc[t].par.Inumber), op[t].nm) IN
          IF r.ok THEN Goto(t, "lu_child", [loc[t] EXCEPT !.childID = r.id])
          ELSE Return(t, "ENOENT")
     ELSE Panic(t)
  /\ UNCHANGED <<inode, content, krefs, allocated, unlinked, fuel>>

\* child := fs.getInodeOrDie(childID)
LookUpInodeChild(t) ==
  /\ At(t, "lu_child")
  /\ IF loc[t].childID \in DOMAIN inode
     THEN Goto(t, "lu_write", [loc[t] EXCEPT !.chi = inode[loc[t].childID]])
     ELSE Panic(t)
  /\ UNCHANGED <<inode, content, krefs, allocated, unlinked, fuel>>

\* child.Nlink++; child.writeOrDie(); the reply hands the kernel a reference.
LookUpInodeWrite(t) ==
  /\ At(t, "lu_write")
  /\ inode' = Upsert(inode, loc[t].chi.Inumber,
                     [loc[t].chi EXCEPT !.Nlink = @ + 1])
  /\ krefs' = Upsert(krefs, loc[t].childID, KRef(loc[t].childID) + 1)
  /\ Return(t, "OK")
  /\ UNCHANGED <<content, allocated, unlinked, fuel>>

LookUpInode(t) ==
  \/ LookUpInodeBegin(t)
  \/ LookUpInodeParent(t)
  \/ LookUpInodeChildren(t)
  \/ LookUpInodeChild(t)
  \/ LookUpInodeWrite(t)

(***************************************************************************)
(* GetInodeAttributes                                                      *)
(***************************************************************************)
GetInodeAttributesBegin(t) ==
  \E pid \in Pids, id \in Known :
    /\ Start(t, Checked([NoOp EXCEPT !.name = "GetInodeAttributes", !.pid = pid,
                                     !.inode = IF pid = 0 THEN 0 ELSE id]))
    /\ PidCheck(t, pid, "lock")
    /\ UNCHANGED <<inode, content, krefs, allocated, unlinked>>

GetInodeAttributesGet(t) ==
  /\ At(t, "ga_get")
  /\ IF op[t].inode \in DOMAIN inode
     THEN Goto(t, "ga_write", [loc[t] EXCEPT !.chi = inode[op[t].inode]])
     ELSE Panic(t)
  /\ UNCHANGED <<inode, content, krefs, allocated, unlinked, fuel>>

\* inode.Atime = time.Now(); inode.writeOrDie()
GetInodeAttributesWrite(t) ==
  /\ At(t, "ga_write")
  /\ inode' = Upsert(inode, loc[t].chi.Inumber, loc[t].chi)
  /\ Return(t, "OK")
  /\ UNCHANGED <<content, krefs, allocated, unlinked, fuel>>

GetInodeAttributes(t) ==
  \/ GetInodeAttributesBegin(t)
  \/ GetInodeAttributesGet(t)
  \/ GetInodeAttributesWrite(t)

(***************************************************************************)
(* ForgetInode: the pid check, then getInodeOrDie, DecrRef and Del with no *)
(* fs.mu.Lock().  DeleteInode is two statements, each a step.              *)
(***************************************************************************)
ForgetInodeReq(t, pid, id, n) ==
  /\ Start(t, Checked([NoOp EXCEPT !.name = "ForgetInode", !.pid = pid,
                                   !.inode = id, !.n = n]))
  /\ PidCheck(t, pid, "fg_get")
  /\ krefs' = IF pid = 0 THEN krefs ELSE Upsert(krefs, id, KRef(id) - n)
  /\ UNCHANGED <<inode, content, allocated, unlinked>>

\* The kernel forgets no more references than it holds.
ForgetInodeBegin(t) ==
  \E pid \in Pids, id \in Known \ {1} :
    \E n \in 1..KRef(id) : ForgetInodeReq(t, pid, id, n)

\* inode := fs.getInodeOrDie(op.Inode)
ForgetInodeGet(t) ==
  /\ At(t, "fg_get")
  /\ IF op[t].inode \in DOMAIN inode
     THEN Goto(t, "fg_write", [loc[t] EXCEPT !.chi = inode[op[t].inode]])
     ELSE Panic(t)
  /\ UNCHANGED <<inode, content, krefs, allocated, unlinked, fuel>>

\* A decrement that also marks the record once no reference is left.
MarkAtZero(in, N) ==
  [in EXCEPT !.Nlink = IF in.Nlink - N < 0 THEN 0 ELSE in.Nlink - N,
             !.ToBeDeleted = @ \/ in.Nlink - N <= 0]

\* DecrRef: in.Nlink -= N, not below 0
DecrRef(in, N) ==
  [in EXCEPT !.Nlink = IF in.Nlink - N < 0 THEN 0 ELSE in.Nlink - N]

\* cnt := inode.DecrRef(op.N), which writes the inode;
\* if cnt == 0 && inode.ToBeDeleted { inode.Del() }
ForgetInodeDecrRef(t) ==
  /\ At(t, "fg_write")
  /\ LET in == DecrRef(loc[t].chi, op[t].n) IN
     /\ inode' = Upsert(inode, in.Inumber, in)
     /\ IF in.Nlink = 0 /\ in.ToBeDeleted
        THEN Goto(t, "fg_delinode", [loc[t] EXCEPT !.chi = in])
        ELSE Return(t, "OK")
  /\ UNCHANGED <<content, krefs, allocated, unlinked, fuel>>

\* DELETE FROM inode WHERE inumber=?
ForgetInodeDelInode(t) ==
  /\ At(t, "fg_delinode")
  /\ inode' = Delete(inode, loc[t].chi.Inumber)
  /\ Goto(t, "fg_delcontent", loc[t])
  /\ UNCHANGED <<content, krefs, allocated, unlinked, fuel>>

\* DELETE FROM content WHERE inumber=?
ForgetInodeDelContent(t) ==
  /\ At(t, "fg_delcontent")
  /\ content' = Delete(content, loc[t].chi.Inumber)
  /\ Return(t, "OK")
  /\ UNCHANGED <<inode, krefs, allocated, unlinked, fuel>>

ForgetInode(t) ==
  \/ ForgetInodeBegin(t)
  \/ ForgetInodeGet(t)
  \/ ForgetInodeDecrRef(t)
  \/ ForgetInodeDelInode(t)
  \/ ForgetInodeDelContent(t)

(***************************************************************************)
(* Inode.AddChild and Inode.RemoveChild as called by the handlers: which   *)
(* in-memory object they act on and with which arguments.                  *)
(***************************************************************************)
AddChildOnNew(t) == op[t].name = "Rename"
AddChildObj(t) == IF AddChildOnNew(t) THEN loc[t].npar ELSE loc[t].par
AddChildName(t) == IF op[t].name = "Rename" THEN op[t].nm2 ELSE op[t].nm
AddChildType(t) ==
  IF op[t].name = "Rename" THEN loc[t].childType
  ELSE IF op[t].name = "MkDir" THEN DT_Directory ELSE DT_File

RemoveChildOnNew(t) == op[t].name = "Rename" /\ loc[t].phase = "existing"
RemoveChildObj(t) == IF RemoveChildOnNew(t) THEN loc[t].npar ELSE loc[t].par
RemoveChildName(t) == IF RemoveChildOnNew(t) THEN op[t].nm2 ELSE op[t].nm

\* in.Mtime = time.Now(); entries := in.getChildrenOrDie()
AddChildGet(t) ==
  /\ At(t, "ac_get")
  /\ IF GetChildrenOk(content, AddChildObj(t).Inumber)
     THEN Goto(t, "ac_putc",
               [loc[t] EXCEPT !.ents = GetChildren(content, AddChildObj(t).Inumber),
                              !.npar = IF AddChildOnNew(t)
                                       THEN [@ EXCEPT !.Mtime = "now"] ELSE @,
                              !.par = IF AddChildOnNew(t)
                                      THEN @ ELSE [@ EXCEPT !.Mtime = "now"]])
     ELSE Panic(t)
  /\ UNCHANGED <<inode, content, krefs, allocated, unlinked, fuel>>

\* in.writeChildrenOrDie(entries)
AddChildWriteChildren(t) ==
  /\ At(t, "ac_putc")
  /\ content' = Upsert(content, AddChildObj(t).Inumber,
                       DirBlob(AddChildEntries(loc[t].ents, loc[t].childID,
                                               AddChildName(t), AddChildType(t))))
  /\ Goto(t, "ac_puti", loc[t])
  /\ UNCHANGED <<inode, krefs, allocated, unlinked, fuel>>

\* in.writeOrDie(), and what the caller does next without a gateway call:
\* Rename goes on to oldParent.RemoveChild(op.OldName); MkDir and createFile
\* fill in the reply, which hands the kernel a reference to the child.
AddChildWriteInode(t) ==
  /\ At(t, "ac_puti")
  /\ inode' = Upsert(inode, AddChildObj(t).Inumber, AddChildObj(t))
  /\ IF op[t].name = "Rename"
     THEN Goto(t, "rc_get", [loc[t] EXCEPT !.phase = "old"]) /\ UNCHANGED krefs
     ELSE /\ Return(t, "OK")
          /\ krefs' = Upsert(krefs, loc[t].childID, KRef(loc[t].childID) + 1)
  /\ UNCHANGED <<content, allocated, unlinked, fuel>>

AddChild(t) == AddChildGet(t) \/ AddChildWriteChildren(t) \/ AddChildWriteInode(t)

\* in.Mtime = time.Now(); i, ok := in.findChild(name) (panics on a
\* non-directory and when the name is unknown); entries :=
\* in.getChildrenOrDie().  The two reads of the same row are one step: only
\* a DELETE can fall between them, and then the second read panics as the
\* first would have.
RemoveChildGet(t) ==
  /\ At(t, "rc_get")
  /\ IF /\ isDir(RemoveChildObj(t))
        /\ GetChildrenOk(content, RemoveChildObj(t).Inumber)
        /\ findChild(GetChildren(content, RemoveChildObj(t).Inumber),
                     RemoveChildName(t)) # 0
     THEN Goto(t, "rc_putc",
               [loc[t] EXCEPT !.ents = GetChildren(content, RemoveChildObj(t).Inumber),
                              !.npar = IF RemoveChildOnNew(t)
                                       THEN [@ EXCEPT !.Mtime = "now"] ELSE @,
                              !.par = IF RemoveChildOnNew(t)
                                      THEN @ ELSE [@ EXCEPT !.Mtime = "now"]])
     ELSE Panic(t)
  /\ UNCHANGED <<inode, content, krefs, allocated, unlinked, fuel>>

\* entries[i] = Dirent{Type: DT_Unknown, Offset: i+1}; writeChildrenOrDie
RemoveChildWriteChildren(t) ==
  /\ At(t, "rc_putc")
  /\ content' = Upsert(content, RemoveChildObj(t).Inumber,
                       DirBlob(RemoveChildEntries(loc[t].ents, RemoveChildName(t))))
  /\ Goto(t, "rc_puti", loc[t])
  /\ UNCHANGED <<inode, krefs, allocated, unlinked, fuel>>

\* in.writeOrDie(), and what the caller does next without a gateway call:
\* Rename links the new name after removing an existing one and returns
\* after removing the old one; RmDir and Unlink go on to mark the child.
RemoveChildWriteInode(t) ==
  /\ At(t, "rc_puti")
  /\ inode' = Upsert(inode, RemoveChildObj(t).Inumber, RemoveChildObj(t))
  /\ IF op[t].name = "Rename"
     THEN IF loc[t].phase = "existing"
          THEN Goto(t, "ac_get", [loc[t] EXCEPT !.phase = "add"])
          ELSE Return(t, "OK")
     ELSE Goto(t, "ul_putchild", loc[t])
  /\ UNCHANGED <<content, krefs, allocated, unlinked, fuel>>

RemoveChild(t) ==
  \/ RemoveChildGet(t)
  \/ RemoveChildWriteChildren(t)
  \/ RemoveChildWriteInode(t)

(***************************************************************************)
(* MkDir, and MkNode and CreateFile through createFile.  The transport     *)
(* sets os.ModeDir in a MkDirOp's mode; a file's mode carries no type bit. *)
(***************************************************************************)
Perms == {"0644"}

MkDirBegin(t) ==
  \E pid \in Pids, parent \in KnownDirs, name \in Names, perm \in Perms :
    /\ Start(t, Checked([NoOp EXCEPT !.name = "MkDir", !.pid = pid,
                                     !.inode = IF pid = 0 THEN 0 ELSE parent,
                                     !.nm = IF pid = 0 THEN "" ELSE name,
                                     !.mode = DirMode(perm)]))
    /\ PidCheck(t, pid, "lock")
    /\ UNCHANGED <<inode, content, krefs, allocated, unlinked>>

MkNodeBegin(t) ==
  \E pid \in Pids, parent \in KnownDirs, name \in Names, perm \in Perms :
    /\ Start(t, Checked([NoOp EXCEPT !.name = "MkNode", !.pid = pid,
                                     !.inode = IF pid = 0 THEN 0 ELSE parent,
                                     !.nm = IF pid = 0 THEN "" ELSE name,
                                     !.mode = FileMode(perm)]))
    /\ PidCheck(t, pid, "lock")
    /\ UNCHANGED <<inode, content, krefs, allocated, unlinked>>

CreateFileReq(t, pid, parent, name, perm) ==
  /\ Start(t, Checked([NoOp EXCEPT !.name = "CreateFile", !.pid = pid,
                                   !.inode = parent, !.nm = name,
                                   !.mode = FileMode(perm)]))
  /\ PidCheck(t, pid, "lock")
  /\ UNCHANGED <<inode, content, krefs, allocated, unlinked>>

CreateFileBegin(t) ==
  \E pid \in Pids, parent \in KnownDirs, name \in Names, perm \in Perms :
    CreateFileReq(t, pid, parent, name, perm)

\* parent := fs.getInodeOrDie(op.Parent)
CreateParent(t) ==
  /\ At(t, "cr_parent")
  /\ IF op[t].inode \in DOMAIN inode
     THEN Goto(t, "cr_lookup", [loc[t] EXCEPT !.par = inode[op[t].inode]])
     ELSE Panic(t)
  /\ UNCHANGED <<inode, content, krefs, allocated, unlinked, fuel>>

\* An existence check that finds no name taken.
NameExistsNever(entries, name) == FALSE

\* An existence check that looks at the first slot only.
NameExistsFirst(entries, name) ==
  Len(entries) > 0 /\ entries[1].Type # DT_Unknown /\ entries[1].Name = name

\* What the existence check of MkDir and createFile answers.
NameExists(entries, name) == LookUpChild(entries, name).ok

\* _, _, exists := parent.LookUpChild(name); if exists { return EEXIST }
CreateLookUp(t) ==
  /\ At(t, "cr_lookup")
  /\ IF isDir(loc[t].par) /\ GetChildrenOk(content, loc[t].par.Inumber)
     THEN IF NameExists(GetChildren(content, loc[t].par.Inumber), op[t].nm)
          THEN Return(t, "EEXIST")
          ELSE Goto(t, "cr_next", loc[t])
     ELSE Panic(t)
  /\ UNCHANGED <<inode, content, krefs, allocated, unlinked, fuel>>

\* allocateInode: fs.nextInumber()
CreateNextInumber(t) ==
  /\ At(t, "cr_next")
  /\ allocated' = Append(allocated, NextInumber(inode))
  /\ unlinked' = unlinked \ {NextInumber(inode)}
  /\ Goto(t, "cr_newinode", [loc[t] EXCEPT !.childID = NextInumber(inode)])
  /\ UNCHANGED <<inode, content, krefs, fuel>>

\* NewInode: inode.writeOrDie()
CreateNewInode(t) ==
  /\ At(t, "cr_newinode")
  /\ LET in == NewInodeRec(loc[t].childID, op[t].mode) IN
     /\ inode' = Upsert(inode, in.Inumber, in)
     /\ Goto(t, IF isDir(in) THEN "cr_newdir" ELSE "ac_get",
             [loc[t] EXCEPT !.chi = in])
  /\ UNCHANGED <<content, krefs, allocated, unlinked, fuel>>

\* NewInode: if inode.isDir() { inode.writeChildrenOrDie([]fuseutil.Dirent{}) }
CreateNewDir(t) ==
  /\ At(t, "cr_newdir")
  /\ content' = Upsert(content, loc[t].childID, DirBlob(<<>>))
  /\ Goto(t, "ac_get", loc[t])
  /\ UNCHANGED <<inode, krefs, allocated, unlinked, fuel>>

CreateSteps(t) ==
  \/ CreateParent(t)
  \/ CreateLookUp(t)
  \/ CreateNextInumber(t)
  \/ CreateNewInode(t)
  \/ CreateNewDir(t)

MkDir(t) == MkDirBegin(t)
MkNode(t) == MkNodeBegin(t)
CreateFile(t) == CreateFileBegin(t)

(***************************************************************************)
(* RmDir and Unlink                                                        *)
(***************************************************************************)
RmDirBegin(t) ==
  \E pid \in Pids, parent \in KnownDirs, name \in Names :
    /\ Start(t, Checked([NoOp EXCEPT !.name = "RmDir", !.pid = pid,
                                     !.inode = IF pid = 0 THEN 0 ELSE parent,
                                     !.nm = IF pid = 0 THEN "" ELSE name]))
    /\ PidCheck(t, pid, "lock")
    /\ UNCHANGED <<inode, content, krefs, allocated, unlinked>>

UnlinkReq(t, pid, parent, name) ==
  /\ Start(t, Checked([NoOp EXCEPT !.name = "Unlink", !.pid = pid,
                                   !.inode = parent, !.nm = name]))
  /\ PidCheck(t, pid, "lock")
  /\ UNCHANGED <<inode, content, krefs, allocated, unlinked>>

UnlinkBegin(t) ==
  \E pid \in Pids, parent \in KnownDirs, name \in Names :
    UnlinkReq(t, pid, parent, name)

\* parent := fs.getInodeOrDie(op.Parent)
RemoveParent(t) ==
  /\ At(t, "ul_parent")
  /\ IF op[t].inode \in DOMAIN inode
     THEN Goto(t, "ul_lookup", [loc[t] EXCEPT !.par = inode[op[t].inode]])
     ELSE Panic(t)
  /\ UNCHANGED <<inode, content, krefs, allocated, unlinked, fuel>>

\* childID, _, ok := parent.LookUpChild(op.Name); if !ok { return ENOENT }
RemoveLookUp(t) ==
  /\ At(t, "ul_lookup")
  /\ IF isDir(loc[t].par) /\ GetChildrenOk(content, loc[t].par.Inumber)
     THEN LET r == LookUpChild(GetChildren(content, loc[t].par.Inumber), op[t].nm) IN
          IF r.ok THEN Goto(t, "ul_child", [loc[t] EXCEPT !.childID = r.id])
          ELSE Return(t, "ENOENT")
     ELSE Panic(t)
  /\ UNCHANGED <<inode, content, krefs, allocated, unlinked, fuel>>

\* child := fs.getInodeOrDie(childID)
RemoveChildInode(t) ==
  /\ At(t, "ul_child")
  /\ IF loc[t].childID \in DOMAIN inode
     THEN Goto(t, IF op[t].name = "RmDir" THEN "rm_len" ELSE "rc_get",
               [loc[t] EXCEPT !.chi = inode[loc[t].childID]])
     ELSE Panic(t)
  /\ UNCHANGED <<inode, content, krefs, allocated, unlinked, fuel>>

\* RmDir: if child.Len() != 0 { return ENOTEMPTY }
RmDirLen(t) ==
  /\ At(t, "rm_len")
  /\ IF GetChildrenOk(content, loc[t].chi.Inumber)
     THEN IF DirLen(GetChildren(content, loc[t].chi.Inumber)) # 0
          THEN Return(t, "ENOTEMPTY")
          ELSE Goto(t, "rc_get", loc[t])
     ELSE Panic(t)
  /\ UNCHANGED <<inode, content, krefs, allocated, unlinked, fuel>>

\* The record RmDir and Unlink write for the child:
\* child.Nlink--; child.ToBeDeleted = true
MarkUnlinked(in) == [in EXCEPT !.Nlink = @ - 1, !.ToBeDeleted = TRUE]

\* child.writeOrDie()
RemoveMarkChild(t) ==
  /\ At(t, "ul_putchild")
  /\ inode' = Upsert(inode, loc[t].chi.Inumber, MarkUnlinked(loc[t].chi))
  /\ unlinked' = IF KRef(loc[t].chi.Inumber) > 0
                 THEN unlinked \cup {loc[t].chi.Inumber} ELSE unlinked
  /\ Return(t, "OK")
  /\ UNCHANGED <<content, krefs, allocated, fuel>>

RemoveSteps(t) ==
  \/ RemoveParent(t)
  \/ RemoveLookUp(t)
  \/ RemoveChildInode(t)
  \/ RemoveMarkChild(t)

RmDir(t) == RmDirBegin(t) \/ RmDirLen(t)
Unlink(t) == UnlinkBegin(t)

(***************************************************************************)
(* Rename                                                                  *)
(***************************************************************************)
RenameBegin(t) ==
  \E pid \in Pids, oldParent \in KnownDirs, oldName \in Names,
     newParent \in KnownDirs, newName \in Names :
    /\ Start(t, Checked([NoOp EXCEPT !.name = "Rename", !.pid = pid,
                                     !.inode = IF pid = 0 THEN 0 ELSE oldParent,
                                     !.nm = IF pid = 0 THEN "" ELSE oldName,
                                     !.inode2 = IF pid = 0 THEN 0 ELSE newParent,
                                     !.nm2 = IF pid = 0 THEN "" ELSE newName]))
    /\ PidCheck(t, pid, "lock")
    /\ UNCHANGED <<inode, content, krefs, allocated, unlinked>>

\* oldParent := fs.getInodeOrDie(op.OldParent)
RenameOldParent(t) ==
  /\ At(t, "rn_oldparent")
  /\ IF op[t].inode \in DOMAIN inode
     THEN Goto(t, "rn_oldlookup", [loc[t] EXCEPT !.par = inode[op[t].inode]])
     ELSE Panic(t)
  /\ UNCHANGED <<inode, content, krefs, allocated, unlinked, fuel>>

\* childID, childType, ok := oldParent.LookUpChild(op.OldName)
RenameOldLookUp(t) ==
  /\ At(t, "rn_oldlookup")
  /\ IF isDir(loc[t].par) /\ GetChildrenOk(content, loc[t].par.Inumber)
     THEN LET r == LookUpChild(GetChildren(content, loc[t].par.Inumber), op[t].nm) IN
          IF r.ok
          THEN Goto(t, "rn_newparent",
                    [loc[t] EXCEPT !.childID = r.id, !.childType = r.typ])
          ELSE Return(t, "ENOENT")
     ELSE Panic(t)
  /\ UNCHANGED <<inode, content, krefs, allocated, unlinked, fuel>>

\* newParent := fs.getInodeOrDie(op.NewParent)
RenameNewParent(t) ==
  /\ At(t, "rn_newparent")
  /\ IF op[t].inode2 \in DOMAIN inode
     THEN Goto(t, "rn_newlookup", [loc[t] EXCEPT !.npar = inode[op[t].inode2]])
     ELSE Panic(t)
  /\ UNCHANGED <<inode, content, krefs, allocated, unlinked, fuel>>

\* existingID, _, ok := newParent.LookUpChild(op.NewName)
RenameNewLookUp(t) ==
  /\ At(t, "rn_newlookup")
  /\ IF isDir(loc[t].npar) /\ GetChildrenOk(content, loc[t].npar.Inumber)
     THEN LET r == LookUpChild(GetChildren(content, loc[t].npar.Inumber), op[t].nm2) IN
          IF r.ok
          THEN Goto(t, "rn_existing", [loc[t] EXCEPT !.existingID = r.id])
          ELSE Goto(t, "ac_get", [loc[t] EXCEPT !.phase = "add"])
     ELSE Panic(t)
  /\ UNCHANGED <<inode, content, krefs, allocated, unlinked, fuel>>

\* existing := fs.getInodeOrDie(existingID); a file is removed at once
RenameExisting(t) ==
  /\ At(t, "rn_existing")
  /\ IF loc[t].existingID \in DOMAIN inode
     THEN LET existing == inode[loc[t].existingID] IN
          IF isDir(existing)
          THEN Goto(t, "rn_readdir", [loc[t] EXCEPT !.chi = existing])
          ELSE Goto(t, "rc_get", [loc[t] EXCEPT !.chi = existing,
                                                 !.phase = "existing"])
     ELSE Panic(t)
  /\ UNCHANGED <<inode, content, krefs, allocated, unlinked, fuel>>

\* existing.ReadDir(buf[:], 0): entries := in.getChildrenOrDie()
RenameReadDir(t) ==
  /\ At(t, "rn_readdir")
  /\ IF GetChildrenOk(content, loc[t].chi.Inumber)
     THEN Goto(t, "rn_readdirw",
               [loc[t] EXCEPT !.ents = GetChildren(content, loc[t].chi.Inumber)])
     ELSE Panic(t)
  /\ UNCHANGED <<inode, content, krefs, allocated, unlinked, fuel>>

\* A Rename that marks the directory it is about to replace as unlinked.
MarksEmptyTarget(t) ==
  /\ At(t, "rn_readdirw")
  /\ inode' = Upsert(inode, loc[t].chi.Inumber, MarkUnlinked(loc[t].chi))
  /\ IF ReadDirBytes(loc[t].ents, 0, RenameBufSize) > 0
     THEN Return(t, "ENOTEMPTY")
     ELSE Goto(t, "rc_get", [loc[t] EXCEPT !.phase = "existing"])
  /\ UNCHANGED <<content, krefs, allocated, unlinked, fuel>>

\* existing.ReadDir: in.writeOrDie(); a directory that yields bytes is not
\* empty; otherwise newParent.RemoveChild(op.NewName)
RenameReadDirWrite(t) ==
  /\ At(t, "rn_readdirw")
  /\ inode' = Upsert(inode, loc[t].chi.Inumber, loc[t].chi)
  /\ IF ReadDirBytes(loc[t].ents, 0, RenameBufSize) > 0
     THEN Return(t, "ENOTEMPTY")
     ELSE Goto(t, "rc_get", [loc[t] EXCEPT !.phase = "existing"])
  /\ UNCHANGED <<content, krefs, allocated, unlinked, fuel>>

Rename(t) ==
  \/ RenameBegin(t)
  \/ RenameOldParent(t)
  \/ RenameOldLookUp(t)
  \/ RenameNewParent(t)
  \/ RenameNewLookUp(t)
  \/ RenameExisting(t)
  \/ RenameReadDir(t)
  \/ RenameReadDirWrite(t)

(***************************************************************************)
(* SetInodeAttributes.  The arguments a request may carry: a size (with or *)
(* without a file handle), a mode that keeps the inode's type bits, an     *)
(* mtime.                                                                  *)
(***************************************************************************)
SetattrArgs ==
  {[hasSize |-> TRUE, size |-> s, handle |-> h, hasMode |-> FALSE, hasMtime |-> FALSE]
     : s \in 0..MaxOff, h \in BOOLEAN}
  \cup {[hasSize |-> FALSE, size |-> 0, handle |-> FALSE, hasMode |-> m, hasMtime |-> ~m]
     : m \in BOOLEAN}

SetInodeAttributesBegin(t) ==
  \E pid \in Pids, id \in Known, a \in SetattrArgs :
    /\ a.hasSize => id \in KnownFiles
    /\ Start(t, Checked(IF pid = 0
                        THEN [NoOp EXCEPT !.name = "SetInodeAttributes", !.pid = pid]
                        ELSE [NoOp EXCEPT !.name = "SetInodeAttributes", !.pid = pid,
                                !.inode = id, !.hasSize = a.hasSize, !.size = a.size,
                                !.handle = a.handle, !.hasMode = a.hasMode,
                                !.mode = IF id \in KnownDirs THEN DirMode("0600")
                                         ELSE FileMode("0600"),
                                !.hasMtime = a.hasMtime, !.mtime = "t1"]))
    /\ PidCheck(t, pid, "lock")
    /\ UNCHANGED <<inode, content, krefs, allocated, unlinked>>

\* if op.Size != nil && op.Handle == nil && *op.Size != 0 { err = EBADF }
SetattrErr(o) ==
  IF o.hasSize /\ ~o.handle /\ o.size # 0 THEN "EBADF" ELSE "OK"

\* inode := fs.getInodeOrDie(op.Inode), whatever err is
SetInodeAttributesGet(t) ==
  /\ At(t, "sa_get")
  /\ IF op[t].inode \in DOMAIN inode
     THEN Goto(t, IF op[t].hasSize THEN "sa_read" ELSE "sa_write",
               [loc[t] EXCEPT !.chi = inode[op[t].inode], !.err = SetattrErr(op[t])])
     ELSE Panic(t)
  /\ UNCHANGED <<inode, content, krefs, allocated, unlinked, fuel>>

\* SetAttributes: content := in.readContentOrDie()
SetAttributesRead(t) ==
  /\ At(t, "sa_read")
  /\ Goto(t, "sa_writec",
          [loc[t] EXCEPT !.bytes = ReadContent(content, loc[t].chi.Inumber)])
  /\ UNCHANGED <<inode, content, krefs, allocated, unlinked, fuel>>

\* A resize that pads but never cuts.
PadOnly(bytes, size) ==
  IF size <= Len(bytes) THEN bytes ELSE bytes \o Zeros(size - Len(bytes))

\* content[:intSize], or content with zero padding up to intSize
Resize(bytes, size) ==
  IF size <= Len(bytes) THEN SubSeq(bytes, 1, size)
  ELSE bytes \o Zeros(size - Len(bytes))

\* SetAttributes: in.writeContentOrDie(content)
SetAttributesWriteContent(t) ==
  /\ At(t, "sa_writec")
  /\ content' = Upsert(content, loc[t].chi.Inumber,
                       AsBlob(Resize(loc[t].bytes, op[t].size),
                              PrevBlob(content, loc[t].chi.Inumber)))
  /\ Goto(t, "sa_write", loc[t])
  /\ UNCHANGED <<inode, krefs, allocated, unlinked, fuel>>

\* An update that takes size and mtime but leaves the mode as it was.
KeepsMode(in, o) ==
  [in EXCEPT !.Size = IF o.hasSize THEN o.size ELSE @,
             !.Mtime = IF o.hasMtime THEN o.mtime ELSE "now"]

\* The attributes SetAttributes leaves in the inode object.
SetAttributes(in, o) ==
  [in EXCEPT !.Size = IF o.hasSize THEN o.size ELSE @,
             !.Mode = IF o.hasMode THEN o.mode ELSE @,
             !.Mtime = IF o.hasMtime THEN o.mtime ELSE "now"]

\* SetAttributes: in.writeOrDie(); return err
SetAttributesWriteInode(t) ==
  /\ At(t, "sa_write")
  /\ inode' = Upsert(inode, loc[t].chi.Inumber, SetAttributes(loc[t].chi, op[t]))
  /\ Return(t, loc[t].err)
  /\ UNCHANGED <<content, krefs, allocated, unlinked, fuel>>

SetInodeAttributes(t) ==
  \/ SetInodeAttributesBegin(t)
  \/ SetInodeAttributesGet(t)
  \/ SetAttributesRead(t)
  \/ SetAttributesWriteContent(t)
  \/ SetAttributesWriteInode(t)

(***************************************************************************)
(* OpenDir and OpenFile                                                    *)
(***************************************************************************)
OpenDirBegin(t) ==
  \E pid \in Pids, id \in KnownDirs :
    /\ Start(t, Checked([NoOp EXCEPT !.name = "OpenDir", !.pid = pid,
                                     !.inode = IF pid = 0 THEN 0 ELSE id]))
    /\ PidCheck(t, pid, "lock")
    /\ UNCHANGED <<inode, content, krefs, allocated, unlinked>>

\* inode := fs.getInodeOrDie(op.Inode); if !inode.isDir() { panic }
OpenDirGet(t) ==
  /\ At(t, "od_get")
  /\ IF op[t].inode \in DOMAIN inode /\ isDir(inode[op[t].inode])
     THEN Goto(t, "od_write", [loc[t] EXCEPT !.chi = inode[op[t].inode]])
     ELSE Panic(t)
  /\ UNCHANGED <<inode, content, krefs, allocated, unlinked, fuel>>

OpenDirWrite(t) ==
  /\ At(t, "od_write")
  /\ inode' = Upsert(inode, loc[t].chi.Inumber, loc[t].chi)
  /\ Return(t, "OK")
  /\ UNCHANGED <<content, krefs, allocated, unlinked, fuel>>

OpenDir(t) == OpenDirBegin(t) \/ OpenDirGet(t) \/ OpenDirWrite(t)

OpenFileBegin(t) ==
  \E pid \in Pids, id \in KnownFiles \ {1} :
    /\ Start(t, Checked([NoOp EXCEPT !.name = "OpenFile", !.pid = pid,
                                     !.inode = IF pid = 0 THEN 0 ELSE id]))
    /\ PidCheck(t, pid, "lock")
    /\ UNCHANGED <<inode, content, krefs, allocated, unlinked>>

\* inode := fs.getInodeOrDie(op.Inode); if !inode.isFile() { panic }
OpenFileGet(t) ==
  /\ At(t, "of_get")
  /\ IF op[t].inode \in DOMAIN inode /\ isFile(inode[op[t].inode])
     THEN Goto(t, "of_write", [loc[t] EXCEPT !.chi = inode[op[t].inode]])
     ELSE Panic(t)
  /\ UNCHANGED <<inode, content, krefs, allocated, unlinked, fuel>>

OpenFileWrite(t) ==
  /\ At(t, "of_write")
  /\ inode' = Upsert(inode, loc[t].chi.Inumber, loc[t].chi)
  /\ Return(t, "OK")
  /\ UNCHANGED <<content, krefs, allocated, unlinked, fuel>>

OpenFile(t) == OpenFileBegin(t) \/ OpenFileGet(t) \/ OpenFileWrite(t)

(***************************************************************************)
(* ReadDir (the handler around Inode.ReadDir)                              *)
(***************************************************************************)
ReadDirBegin(t) ==
  \E pid \in Pids, id \in KnownDirs, off \in 0..MaxOff :
    /\ Start(t, Checked([NoOp EXCEPT !.name = "ReadDir", !.pid = pid,
                                     !.inode = IF pid = 0 THEN 0 ELSE id,
                                     !.off = IF pid = 0 THEN 0 ELSE off,
                                     !.room = IF pid = 0 THEN 0 ELSE RenameBufSize]))
    /\ PidCheck(t, pid, "lock")
    /\ UNCHANGED <<inode, content, krefs, allocated, unlinked>>

\* inode := fs.getInodeOrDie(op.Inode)
ReadDirGet(t) ==
  /\ At(t, "rd_get")
  /\ IF op[t].inode \in DOMAIN inode
     THEN Goto(t, "rd_children", [loc[t] EXCEPT !.chi = inode[op[t].inode]])
     ELSE Panic(t)
  /\ UNCHANGED <<inode, content, krefs, allocated, unlinked, fuel>>

\* Inode.ReadDir: panics on a non-directory; entries := in.getChildrenOrDie()
ReadDirChildren(t) ==
  /\ At(t, "rd_children")
  /\ IF isDir(loc[t].chi) /\ GetChildrenOk(content, loc[t].chi.Inumber)
     THEN Goto(t, "rd_write1",
               [loc[t] EXCEPT !.ents = ReadDirEntries(
                   GetChildren(content, loc[t].chi.Inumber), op[t].off, op[t].room)])
     ELSE Panic(t)
  /\ UNCHANGED <<inode, content, krefs, allocated, unlinked, fuel>>

\* Inode.ReadDir: in.Atime = time.Now(); in.writeOrDie()
ReadDirWriteInode(t) ==
  /\ At(t, "rd_write1")
  /\ inode' = Upsert(inode, loc[t].chi.Inumber, loc[t].chi)
  /\ Goto(t, "rd_write2", loc[t])
  /\ UNCHANGED <<content, krefs, allocated, unlinked, fuel>>

\* the handler: inode.Atime = time.Now(); inode.writeOrDie()
ReadDirWriteAgain(t) ==
  /\ At(t, "rd_write2")
  /\ inode' = Upsert(inode, loc[t].chi.Inumber, loc[t].chi)
  /\ Return(t, "OK")
  /\ UNCHANGED <<content, krefs, allocated, unlinked, fuel>>

ReadDir(t) ==
  \/ ReadDirBegin(t)
  \/ ReadDirGet(t)
  \/ ReadDirChildren(t)
  \/ ReadDirWriteInode(t)
  \/ ReadDirWriteAgain(t)

(***************************************************************************)
(* ReadFile                                                                *)
(***************************************************************************)
ReadFileBegin(t) ==
  \E pid \in Pids, id \in KnownFiles \ {1}, off \in 0..MaxOff, len \in 1..(MaxOff + 1) :
    /\ Start(t, Checked(IF pid = 0 THEN [NoOp EXCEPT !.name = "ReadFile", !.pid = pid]
                        ELSE [NoOp EXCEPT !.name = "ReadFile", !.pid = pid, !.inode = id,
                                          !.off = off, !.length = len]))
    /\ PidCheck(t, pid, "lock")
    /\ UNCHANGED <<inode, content, krefs, allocated, unlinked>>

ReadFileGet(t) ==
  /\ At(t, "rf_get")
  /\ IF op[t].inode \in DOMAIN inode
     THEN Goto(t, "rf_read", [loc[t] EXCEPT !.chi = inode[op[t].inode]])
     ELSE Panic(t)
  /\ UNCHANGED <<inode, content, krefs, allocated, unlinked, fuel>>

\* A read that takes the buffer's length of bytes from the start.
ReadAtStart(bytes, off, len) ==
  LET n == IF Len(bytes) < len THEN Len(bytes) ELSE len IN
  [data |-> SubSeq(bytes, 1, n), eof |-> n < len]

\* ReadAt: the bytes copied into a buffer of length len from offset off,
\* and whether io.EOF comes with them.
ReadAt(bytes, off, len) ==
  IF off > Len(bytes) THEN [data |-> <<>>, eof |-> TRUE]
  ELSE LET n == IF Len(bytes) - off < len THEN Len(bytes) - off ELSE len IN
       [data |-> SubSeq(bytes, off + 1, off + n), eof |-> n < len]

\* A handler that hands io.EOF on to the kernel as an error.
EofAsError(t) ==
  /\ At(t, "rf_read")
  /\ IF isFile(loc[t].chi)
     THEN LET r == ReadAt(ReadContent(content, loc[t].chi.Inumber),
                          op[t].off, op[t].length) IN
          IF r.eof THEN Return(t, "EIO")
          ELSE Goto(t, "rf_write", [loc[t] EXCEPT !.bytes = r.data])
     ELSE Panic(t)
  /\ UNCHANGED <<inode, content, krefs, allocated, unlinked, fuel>>

\* inode.ReadAt(op.Dst, op.Offset); on io.EOF the handler returns nil
ReadFileReadAt(t) ==
  /\ At(t, "rf_read")
  /\ IF isFile(loc[t].chi)
     THEN LET r == ReadAt(ReadContent(content, loc[t].chi.Inumber),
                          op[t].off, op[t].length) IN
          IF r.eof THEN Return(t, "OK")
          ELSE Goto(t, "rf_write", [loc[t] EXCEPT !.bytes = r.data])
     ELSE Panic(t)
  /\ UNCHANGED <<inode, content, krefs, allocated, unlinked, fuel>>

\* inode.Atime = time.Now(); inode.writeOrDie()
ReadFileWrite(t) ==
  /\ At(t, "rf_write")
  /\ inode' = Upsert(inode, loc[t].chi.Inumber, loc[t].chi)
  /\ Return(t, "OK")
  /\ UNCHANGED <<content, krefs, allocated, unlinked, fuel>>

ReadFile(t) ==
  \/ ReadFileBegin(t)
  \/ ReadFileGet(t)
  \/ ReadFileReadAt(t)
  \/ ReadFileWrite(t)

(***************************************************************************)
(* WriteFile                                                               *)
(***************************************************************************)
WriteFileBegin(t) ==
  \E pid \in Pids, id \in KnownFiles \ {1}, off \in 0..MaxOff, n \in 0..MaxData :
    /\ Start(t, Checked(IF pid = 0 THEN [NoOp EXCEPT !.name = "WriteFile", !.pid = pid]
                        ELSE [NoOp EXCEPT !.name = "WriteFile", !.pid = pid, !.inode = id,
                                          !.off = off, !.data = [k \in 1..n |-> 7]]))
    /\ PidCheck(t, pid, "lock")
    /\ UNCHANGED <<inode, content, krefs, allocated, unlinked>>

WriteFileGet(t) ==
  /\ At(t, "wf_get")
  /\ IF op[t].inode \in DOMAIN inode
     THEN Goto(t, "wf_read", [loc[t] EXCEPT !.chi = inode[op[t].inode]])
     ELSE Panic(t)
  /\ UNCHANGED <<inode, content, krefs, allocated, unlinked, fuel>>

\* A write that puts p after the content it found.
AppendBytes(bytes, p, off) == bytes \o p

\* WriteAt: the content after padding up to off + len(p) and copying p in.
WriteAtBytes(bytes, p, off) ==
  LET newLen == off + Len(p)
      padded == IF Len(bytes) < newLen THEN bytes \o Zeros(newLen - Len(bytes))
                ELSE bytes
  IN [k \in 1..Len(padded) |->
        IF k > off /\ k <= off + Len(p) THEN p[k - off] ELSE padded[k]]

\* WriteAt: in.Size changes only when the content had to grow.
WriteAtSize(in, bytes, p, off) ==
  IF Len(bytes) < off + Len(p) THEN [in EXCEPT !.Size = off + Len(p), !.Mtime = "now"]
  ELSE [in EXCEPT !.Mtime = "now"]

\* WriteAt: panics on a non-file; content := in.readContentOrDie()
WriteAtRead(t) ==
  /\ At(t, "wf_read")
  /\ IF isFile(loc[t].chi)
     THEN LET bytes == ReadContent(content, loc[t].chi.Inumber) IN
          Goto(t, "wf_writec",
               [loc[t] EXCEPT !.bytes = WriteAtBytes(bytes, op[t].data, op[t].off),
                              !.chi = WriteAtSize(@, bytes, op[t].data, op[t].off)])
     ELSE Panic(t)
  /\ UNCHANGED <<inode, content, krefs, allocated, unlinked, fuel>>

\* WriteAt: in.writeContentOrDie(content)
WriteAtWriteContent(t) ==
  /\ At(t, "wf_writec")
  /\ content' = Upsert(content, loc[t].chi.Inumber,
                       AsBlob(loc[t].bytes, PrevBlob(content, loc[t].chi.Inumber)))
  /\ Goto(t, "wf_write1", loc[t])
  /\ UNCHANGED <<inode, krefs, allocated, unlinked, fuel>>

\* WriteAt: in.writeOrDie()
WriteAtWriteInode(t) ==
  /\ At(t, "wf_write1")
  /\ inode' = Upsert(inode, loc[t].chi.Inumber, loc[t].chi)
  /\ Goto(t, "wf_write2", loc[t])
  /\ UNCHANGED <<content, krefs, allocated, unlinked, fuel>>

\* the handler: inode.writeOrDie()
WriteFileWrite(t) ==
  /\ At(t, "wf_write2")
  /\ inode' = Upsert(inode, loc[t].chi.Inumber, loc[t].chi)
  /\ Return(t, "OK")
  /\ UNCHANGED <<content, krefs, allocated, unlinked, fuel>>

WriteFile(t) ==
  \/ WriteFileBegin(t)
  \/ WriteFileGet(t)
  \/ WriteAtRead(t)
  \/ WriteAtWriteContent(t)
  \/ WriteAtWriteInode(t)
  \/ WriteFileWrite(t)

(***************************************************************************)
(* FlushFile: the pid check and nothing else.                              *)
(***************************************************************************)
FlushFile(t) ==
  \E pid \in Pids :
    /\ Start(t, [NoOp EXCEPT !.name = "none", !.pid = pid])
    /\ ret' = [ret EXCEPT ![t] = IF pid = 0 THEN "EINVAL" ELSE "OK"]
    /\ UNCHANGED <<pc, loc, mu, alive, dvars>>
    /\ UNCHANGED <<inode, content, krefs, allocated, unlinked>>

(***************************************************************************)
(* Fallocate                                                               *)
(***************************************************************************)
FallocModes == {0, 1}

FallocateBegin(t) ==
  \E pid \in Pids, id \in KnownFiles \ {1}, m \in FallocModes,
     off \in 0..MaxOff, len \in 0..MaxOff :
    /\ Start(t, Checked(IF pid = 0 THEN [NoOp EXCEPT !.name = "Fallocate", !.pid = pid]
                        ELSE [NoOp EXCEPT !.name = "Fallocate", !.pid = pid, !.inode = id,
                                          !.fmode = m, !.off = off, !.length = len]))
    /\ PidCheck(t, pid, "lock")
    /\ UNCHANGED <<inode, content, krefs, allocated, unlinked>>

\* inode := fs.getInodeOrDie(op.Inode); Inode.Fallocate returns ENOSYS on a
\* mode other than 0, and the handler returns nil whatever it returned.
FallocateGet(t) ==
  /\ At(t, "fa_get")
  /\ IF op[t].inode \in DOMAIN inode
     THEN IF op[t].fmode # 0 THEN Return(t, "OK")
          ELSE Goto(t, "fa_read", [loc[t] EXCEPT !.chi = inode[op[t].inode]])
     ELSE Panic(t)
  /\ UNCHANGED <<inode, content, krefs, allocated, unlinked, fuel>>

\* An allocation that adds nothing to the content.
NoPadding(bytes, newSize) == bytes

\* Inode.Fallocate: content = append(content, padding...)
FallocateBytes(bytes, newSize) == bytes \o Zeros(newSize - Len(bytes))

\* Inode.Fallocate: content := in.readContentOrDie(); grow when too short
FallocateRead(t) ==
  /\ At(t, "fa_read")
  /\ LET bytes == ReadContent(content, loc[t].chi.Inumber)
         newSize == op[t].off + op[t].length IN
     IF newSize > Len(bytes)
     THEN Goto(t, "fa_writei",
               [loc[t] EXCEPT !.bytes = FallocateBytes(bytes, newSize),
                              !.chi = [@ EXCEPT !.Size = newSize, !.Mtime = "now"]])
     ELSE Return(t, "OK")
  /\ UNCHANGED <<inode, content, krefs, allocated, unlinked, fuel>>

\* Inode.Fallocate: in.writeOrDie()
FallocateWriteInode(t) ==
  /\ At(t, "fa_writei")
  /\ inode' = Upsert(inode, loc[t].chi.Inumber, loc[t].chi)
  /\ Goto(t, "fa_writec", loc[t])
  /\ UNCHANGED <<content, krefs, allocated, unlinked, fuel>>

\* Inode.Fallocate: in.writeContentOrDie(content)
FallocateWriteContent(t) ==
  /\ At(t, "fa_writec")
  /\ content' = Upsert(content, loc[t].chi.Inumber,
                       AsBlob(loc[t].bytes, PrevBlob(content, loc[t].chi.Inumber)))
  /\ Return(t, "OK")
  /\ UNCHANGED <<inode, krefs, allocated, unlinked, fuel>>

Fallocate(t) ==
  \/ FallocateBegin(t)
  \/ FallocateGet(t)
  \/ FallocateRead(t)
  \/ FallocateWriteInode(t)
  \/ FallocateWriteContent(t)

(***************************************************************************)
(* The filesystem under two kernel-facing threads.                         *)
(***************************************************************************)
Init == InitFS /\ fuel = MaxOps /\ InitDirIdle

Step(t) ==
  \/ Acquire(t)
  \/ StatFS(t)
  \/ LookUpInode(t)
  \/ GetInodeAttributes(t)
  \/ SetInodeAttributes(t)
  \/ MkDir(t)
  \/ MkNode(t)
  \/ CreateFile(t)
  \/ CreateSteps(t)
  \/ AddChild(t)
  \/ RemoveChild(t)
  \/ Rename(t)
  \/ RmDir(t)
  \/ Unlink(t)
  \/ RemoveSteps(t)
  \/ OpenDir(t)
  \/ ReadDir(t)
  \/ OpenFile(t)
  \/ ReadFile(t)
  \/ WriteFile(t)
  \/ FlushFile(t)
  \/ Fallocate(t)
  \/ ForgetInode(t)

Next == \E t \in Threads : Step(t)

Spec == Init /\ [][Next]_vars

(***************************************************************************)
(* All handlers with the requests served one after the other by a single   *)
(* thread.                                                                 *)
(***************************************************************************)
InitSeq == InitFS /\ fuel = MaxOpsSeq /\ InitDirIdle

NextSeq == Step("t1")

SpecSeq == InitSeq /\ [][NextSeq]_vars

(***************************************************************************)
(* The handlers that add and remove names: MkDir, MkNode, CreateFile,      *)
(* Rename, RmDir and Unlink under the two threads.                         *)
(***************************************************************************)
InitNames == InitFS /\ fuel = MaxOpsNames /\ InitDirIdle

StepNames(t) ==
  \/ Acquire(t)
  \/ MkDir(t)
  \/ MkNode(t)
  \/ CreateFile(t)
  \/ CreateSteps(t)
  \/ AddChild(t)
  \/ RemoveChild(t)
  \/ Rename(t)
  \/ RmDir(t)
  \/ Unlink(t)
  \/ RemoveSteps(t)

NextNames == \E t \in Threads : StepNames(t)

SpecNames == InitNames /\ [][NextNames]_vars

\* The same handlers with the requests served one after the other.
InitNamesSeq == InitFS /\ fuel = MaxOpsNamesSeq /\ InitDirIdle

NextNamesSeq == StepNames("t1")

SpecNamesSeq == InitNamesSeq /\ [][NextNamesSeq]_vars

(***************************************************************************)
(* The life of one name: CreateFile, LookUpInode, Unlink and ForgetInode   *)
(* on the name "a" of the root, under the same two threads.                *)
(***************************************************************************)
InitLife == InitFS /\ fuel = MaxOpsLife /\ InitDirIdle

LifeCreateFile(t) == CreateFileReq(t, 1, 1, "a", "0644")
LifeLookUpInode(t) == LookUpInodeReq(t, 1, 1, "a")
LifeUnlink(t) == UnlinkReq(t, 1, 1, "a")
LifeForgetInode(t) ==
  \E id \in Known \ {1} : \E n \in 1..KRef(id) : ForgetInodeReq(t, 1, id, n)

StepLife(t) ==
  \/ Acquire(t)
  \/ LifeCreateFile(t)
  \/ CreateParent(t)
  \/ CreateLookUp(t)
  \/ CreateNextInumber(t)
  \/ CreateNewInode(t)
  \/ AddChild(t)
  \/ LifeLookUpInode(t)
  \/ LookUpInodeParent(t)
  \/ LookUpInodeChildren(t)
  \/ LookUpInodeChild(t)
  \/ LookUpInodeWrite(t)
  \/ LifeUnlink(t)
  \/ RemoveParent(t)
  \/ RemoveLookUp(t)
  \/ RemoveChildInode(t)
  \/ RemoveChild(t)
  \/ RemoveMarkChild(t)
  \/ LifeForgetInode(t)
  \/ ForgetInodeGet(t)
  \/ ForgetInodeDecrRef(t)
  \/ ForgetInodeDelInode(t)
  \/ ForgetInodeDelContent(t)

NextLife == \E t \in Threads : StepLife(t)

SpecLife == InitLife /\ [][NextLife]_vars

\* The same requests one after the other: a single thread serves them.
NextLifeSeq == StepLife("t1")

SpecLifeSeq == InitLife /\ [][NextLifeSeq]_vars

(***************************************************************************)
(* One directory's entry list under AddChild and RemoveChild (SpecDir),    *)
(* and with a reader that enumerates it with Inode.ReadDir, resuming from  *)
(* the cookie of the last entry it was given (SpecReadDir).                *)
(*   dEnts    the entry list of the directory blob                         *)
(*   dCookie  the offset the next ReadDir call of the enumeration passes   *)
(*   dSeen    the entries the enumeration has been given so far            *)
(*   dStable  the names live since the enumeration began                   *)
(*   dDone    the enumeration ended: a call returned nothing               *)
(***************************************************************************)
\* most slots a directory blob grows to
MaxSlots == 4

DirNames == {"a", "b", "c", "d", "e"}
DirIds == {2, 3}
ReadNames == {"a", "b", "cdefghijk"}
\* room for one dirent of the longest name, for two, and the 4096 bytes of
\* a kernel buffer
DirRooms == {40, 72, RenameBufSize}

LiveNames(entries) ==
  {entries[i].Name : i \in {j \in 1..Len(entries) : entries[j].Type # DT_Unknown}}

InitDir ==
  /\ InitFS
  /\ fuel = 0
  /\ InitDirIdle

\* createFile / MkDir: the existence check, then parent.AddChild
DirAddChildOf(names, ids) ==
  \E name \in names, id \in ids :
    /\ ~NameExists(dEnts, name)
    /\ Len(AddChildEntries(dEnts, id, name, DT_File)) <= MaxSlots
    /\ dEnts' = AddChildEntries(dEnts, id, name, DT_File)
    /\ UNCHANGED <<dCookie, dSeen, dStable, dDone, fsvars>>

\* Unlink / RmDir: the lookup, then parent.RemoveChild
DirRemoveChildOf(names) ==
  \E name \in names :
    /\ NameExists(dEnts, name)
    /\ dEnts' = RemoveChildEntries(dEnts, name)
    /\ dStable' = dStable \ {name}
    /\ UNCHANGED <<dCookie, dSeen, dDone, fsvars>>

\* ReadDir with the cookie of the last entry of the previous call
DirReadDir ==
  \E room \in DirRooms :
    /\ ~dDone
    /\ LET got == ReadDirEntries(dEnts, dCookie, room) IN
       /\ dSeen' = dSeen \o got
       /\ dCookie' = IF got = <<>> THEN dCookie ELSE got[Len(got)].Offset
       /\ dDone' = (got = <<>>)
    /\ UNCHANGED <<dEnts, dStable, fsvars>>

\* OpenDir: a new enumeration starts at offset 0
DirRewind ==
  /\ dDone
  /\ dCookie' = 0
  /\ dSeen' = <<>>
  /\ dStable' = LiveNames(dEnts)
  /\ dDone' = FALSE
  /\ UNCHANGED <<dEnts, fsvars>>

DirAddChild == DirAddChildOf(DirNames, DirIds)
DirRemoveChild == DirRemoveChildOf(DirNames)

NextDir == DirAddChild \/ DirRemoveChild

SpecDir == InitDir /\ [][NextDir]_vars

ReadAddChild == DirAddChildOf(ReadNames, {2})
ReadRemoveChild == DirRemoveChildOf(ReadNames)

NextReadDir == ReadAddChild \/ ReadRemoveChild \/ DirReadDir \/ DirRewind

SpecReadDir == InitDir /\ [][NextReadDir]_vars

(***************************************************************************)
(* Properties.                                                             *)
(***************************************************************************)
\* No handler is running and the process is up.
Quiescent == alive /\ \A t \in Threads : pc[t] = "idle"

\* The directory blobs of the store: the entry lists of its directory inodes.
DirsOfStore ==
  {d \in DOMAIN inode : isDir(inode[d]) /\ GetChildrenOk(content, d)}

\* C1: every inumber allocateInode hands out is strictly greater than every
\* inumber it handed out before, whatever has been erased since; none is
\* handed out twice.
C1_InumbersIncrease ==
  \A i \in 1..Len(allocated) : \A j \in 1..Len(allocated) :
    i < j => allocated[i] < allocated[j]

\* The thread has made its first gateway call and not yet its last: it is
\* past the first call of the handler it runs.
Inside(t) ==
  /\ pc[t] \notin {"idle", "lock", "panic"}
  /\ pc[t] # (IF op[t].name = "ForgetInode" THEN "fg_get" ELSE Entry(op[t].name))

\* C2: at no time are two handler invocations (ForgetInode among them) both
\* between their first store read and their last store write.
C2_MutualExclusion ==
  \A t \in Threads : \A u \in Threads : t # u => ~(Inside(t) /\ Inside(u))

\* C3: an inode whose name Unlink or RmDir removed while the kernel held
\* references keeps its row, marked ToBeDeleted, for as long as the kernel
\* holds one; once the forgets the kernel issued total what it held and have
\* been served, the inode row and the content row are gone.
C3_DeferredDeletion ==
  \A i \in unlinked :
    /\ KRef(i) > 0 => i \in DOMAIN inode /\ inode[i].ToBeDeleted
    /\ KRef(i) = 0 /\ Quiescent => i \notin DOMAIN inode /\ i \notin DOMAIN content

\* C4: in every reachable state every entry of a directory blob that is not
\* free names an inumber that has an inode row.
C4_EntriesNameInodes ==
  \A d \in DirsOfStore :
    \A k \in 1..Len(GetChildren(content, d)) :
      GetChildren(content, d)[k].Type # DT_Unknown
        => GetChildren(content, d)[k].Inode \in DOMAIN inode

\* C5: when no handler is running, the Size of every regular-file inode in
\* the store is the length of its blob, an absent blob counting as empty.
C5_SizeIsBlobLength ==
  Quiescent =>
    \A i \in DOMAIN inode :
      isFile(inode[i]) => inode[i].Size = Len(ReadContent(content, i))

\* C6: no directory blob holds two entries that are not free under the same
\* name.
C6_NamesUnique ==
  \A d \in DirsOfStore :
    LET ents == GetChildren(content, d) IN
    \A i \in 1..Len(ents) : \A j \in 1..Len(ents) :
      (i # j /\ ents[i].Type # DT_Unknown /\ ents[j].Type # DT_Unknown)
        => ents[i].Name # ents[j].Name

\* A Rename that replaced the entry holding its new name is about to
\* return: the root holds one entry that is not free and one free slot.
C6_Witness ==
  \E t \in Threads :
       /\ op[t].name = "Rename"
       /\ loc[t].existingID # 0
       /\ pc[t] = "rc_puti"
       /\ loc[t].phase = "old"
       /\ GetChildrenOk(content, 1)
       /\ DirLen(GetChildren(content, 1)) = 1
       /\ Len(GetChildren(content, 1)) = 2

\* The step by which thread t returns from Rename with success.
RenameSucceeds(t) ==
  /\ op[t].name = "Rename"
  /\ pc[t] # "idle"
  /\ pc'[t] = "idle"
  /\ ret'[t] = "OK"

\* C9: when Rename returns success, the new name resolves in the new parent
\* to the inumber and type the old name resolved to, and the old name, unless
\* it is the new name in the same directory, resolves no more.
C9_RenameMovesEntry ==
  [][\A t \in Threads :
       RenameSucceeds(t) =>
         /\ GetChildrenOk(content', op[t].inode2)
         /\ LookUpChild(GetChildren(content', op[t].inode2), op[t].nm2)
              = [ok |-> TRUE, id |-> loc[t].childID, typ |-> loc[t].childType]
         /\ <<op[t].inode, op[t].nm>> # <<op[t].inode2, op[t].nm2>>
              => /\ GetChildrenOk(content', op[t].inode)
                 /\ ~LookUpChild(GetChildren(content', op[t].inode), op[t].nm).ok]_vars

\* The step by which the kernel hands thread t a request whose caller pid
\* is 0.
DispatchedPidZero(t) ==
  /\ Idle(t)
  /\ fuel' = fuel - 1
  /\ op'[t].pid = 0

\* C10: a request whose caller pid is 0 is answered EINVAL at once: its
\* handler does not go on to take fs.mu or to make a gateway call.
C10_PidZeroRejected ==
  [][\A t \in Threads :
       DispatchedPidZero(t) =>
         /\ pc'[t] = "idle"
         /\ ret'[t] = "EINVAL"
         /\ UNCHANGED <<inode, content, mu>>]_vars

\* The entries of a list that are free.
FreeSlots(entries) == {i \in 1..Len(entries) : entries[i].Type = DT_Unknown}

\* C7: the entry at position i (index i-1) of the entry list carries Offset
\* i, free or not; RemoveChild frees one slot and leaves every other entry
\* as it was; AddChild fills the lowest free slot when there is one and
\* appends otherwise, leaving every other entry as it was.
C7_SlotsStable ==
  [][/\ \A i \in 1..Len(dEnts') : dEnts'[i].Offset = i
     /\ DirLen(dEnts') < DirLen(dEnts) =>
          /\ Len(dEnts') = Len(dEnts)
          /\ \E p \in 1..Len(dEnts) :
               /\ dEnts[p].Type # DT_Unknown
               /\ dEnts'[p] = FreeDirent(p)
               /\ \A q \in 1..Len(dEnts) : q # p => dEnts'[q] = dEnts[q]
     /\ DirLen(dEnts') > DirLen(dEnts) =>
          IF FreeSlots(dEnts) = {}
          THEN /\ Len(dEnts') = Len(dEnts) + 1
               /\ dEnts'[Len(dEnts')].Type # DT_Unknown
               /\ \A q \in 1..Len(dEnts) : dEnts'[q] = dEnts[q]
          ELSE /\ Len(dEnts') = Len(dEnts)
               /\ \E p \in FreeSlots(dEnts) :
                    /\ \A q \in FreeSlots(dEnts) : p <= q
                    /\ dEnts'[p].Type # DT_Unknown
                    /\ \A q \in 1..Len(dEnts) : q # p => dEnts'[q] = dEnts[q]]_vars

\* The entry list after a, b, c, d were added in that order, b and c
\* removed and e added.
RECURSIVE AddAll(_, _)
AddAll(entries, names) ==
  IF names = <<>> THEN entries
  ELSE AddAll(AddChildEntries(entries, 2, Head(names), DT_File), Tail(names))

FourThenE ==
  AddChildEntries(
    RemoveChildEntries(
      RemoveChildEntries(AddAll(<<>>, <<"a", "b", "c", "d">>), "b"), "c"),
    2, "e", DT_File)

\* The directory went through just that: a is at offset 1, e at offset 2,
\* slot 3 is free and d is at offset 4.
C7_Witness ==
  /\ dEnts = FourThenE
  /\ Len(dEnts) = 4
  /\ dEnts[1].Name = "a" /\ dEnts[1].Offset = 1
  /\ dEnts[2].Name = "e" /\ dEnts[2].Offset = 2
  /\ dEnts[3] = FreeDirent(3)
  /\ dEnts[4].Name = "d" /\ dEnts[4].Offset = 4

\* C8: an enumeration is never given a free slot, is given entries in
\* strictly increasing offset order, and, once it has ended, has been given
\* exactly once every entry that was live from its start to its end.
C8_ReadDirResumes ==
  /\ \A k \in 1..Len(dSeen) : dSeen[k].Type # DT_Unknown
  /\ \A k \in 1..Len(dSeen) : \A l \in 1..Len(dSeen) :
       k < l => dSeen[k].Offset < dSeen[l].Offset
  /\ dDone =>
       \A n \in dStable :
         Cardinality({k \in 1..Len(dSeen) : dSeen[k].Name = n}) = 1

\* An enumeration of three calls or more ended; two entries were live
\* throughout, and it was given an entry that was not.
C8_Witness ==
  /\ dDone
  /\ Cardinality(dStable) = 2
  /\ Len(dSeen) = 3
  /\ \E k \in 1..Len(dSeen) : dSeen[k].Name \notin dStable
  /\ FreeSlots(dEnts) # {}

\* Thread t takes a step of the handler `name` it is running.
StepOf(t, name) == op[t].name = name /\ pc'[t] # pc[t]

\* The size, mode and mtime a row of the inode table holds.
SizeModeMtime(itbl, i) ==
  IF i \in DOMAIN itbl THEN <<itbl[i].Size, itbl[i].Mode, itbl[i].Mtime>>
  ELSE <<>>

\* C11: a SetInodeAttributes request with a size that is not 0 and no file
\* handle is answered EBADF, and no step of it changes the blob of its inode
\* or the size, mode or mtime of its inode row.
C11_EbadfChangesNothing ==
  [][\A t \in Threads :
       (StepOf(t, "SetInodeAttributes") /\ SetattrErr(op[t]) = "EBADF") =>
         /\ pc'[t] = "idle" => ret'[t] = "EBADF"
         /\ ReadContent(content', op[t].inode) = ReadContent(content, op[t].inode)
         /\ SizeModeMtime(inode', op[t].inode) = SizeModeMtime(inode, op[t].inode)]_vars

\* C12: a Fallocate request with a mode other than 0 is answered ENOSYS,
\* and the store is as it was.
C12_FallocateModeRejected ==
  [][\A t \in Threads :
       (StepOf(t, "Fallocate") /\ op[t].fmode # 0) =>
         /\ pc'[t] = "idle" => ret'[t] = "ENOSYS"
         /\ UNCHANGED <<inode, content>>]_vars

\* The name has an entry that is not free in the directory blob of parent.
HasLiveEntry(ctbl, parent, name) ==
  GetChildrenOk(ctbl, parent) /\ name \in LiveNames(GetChildren(ctbl, parent))

\* Thread t takes a step of a MkDir, MkNode or CreateFile handler.
CreationStep(t) ==
  op[t].name \in {"MkDir", "MkNode", "CreateFile"} /\ pc'[t] # pc[t]

\* C13: MkDir, MkNode and CreateFile write nothing before their existence
\* check, and when the name has a live entry in the parent the check
\* returns EEXIST: no inumber is allocated, no inode row is written and no
\* entry list changes.
C13_ExistingNameRejected ==
  [][\A t \in Threads :
       (CreationStep(t) /\ pc[t] \in {"lock", "cr_parent", "cr_lookup"}) =>
         /\ UNCHANGED <<inode, content, allocated>>
         /\ (pc[t] = "cr_lookup" /\ HasLiveEntry(content, op[t].inode, op[t].nm))
              => pc'[t] = "idle" /\ ret'[t] = "EEXIST"
         /\ (pc'[t] = "idle" /\ ret'[t] = "EEXIST")
              => HasLiveEntry(content, op[t].inode, op[t].nm)]_vars

\* A creation was turned away with EEXIST and the directory holds that one
\* name still.
C13_Witness ==
  \E t \in Threads :
    /\ pc[t] = "idle"
    /\ ret[t] = "EEXIST"
    /\ GetChildrenOk(content, 1)
    /\ DirLen(GetChildren(content, 1)) = 2
    /\ Len(allocated) = 2

\* C14: RmDir writes nothing before it knows the directory is empty; it
\* returns ENOENT when the name has no live entry in the parent, ENOTEMPTY
\* exactly when the blob of the named directory holds an entry that is not
\* free, and otherwise goes on, whatever free slots that blob holds, to
\* return success with the name no longer live in the parent.
C14_RmDirResults ==
  [][\A t \in Threads :
       (StepOf(t, "RmDir") /\ pc[t] # "idle") =>
         /\ pc[t] \in {"lock", "ul_parent", "ul_lookup", "ul_child", "rm_len"}
              => UNCHANGED <<inode, content>>
         /\ (/\ pc[t] = "ul_lookup"
             /\ GetChildrenOk(content, op[t].inode)
             /\ ~HasLiveEntry(content, op[t].inode, op[t].nm))
              => pc'[t] = "idle" /\ ret'[t] = "ENOENT"
         /\ (pc[t] = "rm_len" /\ GetChildrenOk(content, loc[t].childID))
              => IF LiveNames(GetChildren(content, loc[t].childID)) # {}
                 THEN pc'[t] = "idle" /\ ret'[t] = "ENOTEMPTY"
                 ELSE pc'[t] = "rc_get"
         /\ pc[t] \in {"rc_get", "rc_putc", "rc_puti", "ul_putchild"}
              => /\ pc'[t] # "panic"
                 /\ pc'[t] = "idle"
                      => /\ ret'[t] = "OK"
                         /\ GetChildrenOk(content', op[t].inode)
                         /\ ~HasLiveEntry(content', op[t].inode, op[t].nm)]_vars

\* RmDir has removed the entry of a directory whose blob holds no entry but
\* a free slot, and is about to mark it.
C14_Witness ==
  \E t \in Threads :
    /\ op[t].name = "RmDir"
    /\ pc[t] = "ul_putchild"
    /\ GetChildrenOk(content, loc[t].childID)
    /\ Len(GetChildren(content, loc[t].childID)) > 0
    /\ ~HasLiveEntry(content, op[t].inode, op[t].nm)

\* C15: Rename changes no entry list before it starts replacing; it returns
\* ENOENT when the old name has no live entry in the old parent and
\* ENOTEMPTY when the new name is a directory whose blob holds a live entry;
\* when the new name is a file or a directory with no live entry it goes on
\* to return success, and the new name then resolves to the renamed inode
\* and type in place of the entry it had.
C15_RenameResults ==
  [][\A t \in Threads :
       (StepOf(t, "Rename") /\ pc[t] # "idle") =>
         /\ pc[t] \in {"lock", "rn_oldparent", "rn_oldlookup", "rn_newparent",
                       "rn_newlookup", "rn_existing", "rn_readdir", "rn_readdirw"}
              => content' = content
         /\ (/\ pc[t] = "rn_oldlookup"
             /\ GetChildrenOk(content, op[t].inode)
             /\ ~HasLiveEntry(content, op[t].inode, op[t].nm))
              => pc'[t] = "idle" /\ ret'[t] = "ENOENT"
         /\ (pc[t] = "rn_readdirw" /\ GetChildrenOk(content, loc[t].existingID))
              => IF LiveNames(GetChildren(content, loc[t].existingID)) # {}
                 THEN pc'[t] = "idle" /\ ret'[t] = "ENOTEMPTY"
                 ELSE pc'[t] = "rc_get"
         /\ (pc[t] = "rn_existing" /\ loc[t].existingID \in DOMAIN inode
               /\ ~isDir(inode[loc[t].existingID]))
              => pc'[t] = "rc_get"
         /\ pc[t] \in {"rc_get", "rc_putc", "rc_puti", "ac_get", "ac_putc", "ac_puti"}
              => /\ pc'[t] # "panic"
                 /\ (pc'[t] = "idle" /\ loc[t].existingID # 0)
                      => /\ ret'[t] = "OK"
                         /\ GetChildrenOk(content', op[t].inode2)
                         /\ LookUpChild(GetChildren(content', op[t].inode2), op[t].nm2)
                              = [ok |-> TRUE, id |-> loc[t].childID,
                                 typ |-> loc[t].childType]]_vars

\* C16: the step by which ForgetInode writes leaves in the inode row the
\* Nlink it held less N, or 0 when that is negative, and goes on to erase
\* exactly when that Nlink is 0 and the row is marked ToBeDeleted; no step of
\* any handler removes an inode row that is not marked ToBeDeleted with
\* Nlink 0, and a content row goes only with its inode row.
C16_ForgetErasesTombstones ==
  [][/\ \A t \in Threads :
          (StepOf(t, "ForgetInode") /\ pc[t] = "fg_write") =>
            /\ op[t].inode \in DOMAIN inode
            /\ inode'[op[t].inode].Nlink
                 = (IF inode[op[t].inode].Nlink - op[t].n < 0 THEN 0
                    ELSE inode[op[t].inode].Nlink - op[t].n)
            /\ (pc'[t] = "fg_delinode")
                 <=> (/\ inode'[op[t].inode].Nlink = 0
                      /\ inode'[op[t].inode].ToBeDeleted)
     /\ \A i \in DOMAIN inode \ DOMAIN inode' :
          inode[i].ToBeDeleted /\ inode[i].Nlink = 0
     /\ \A i \in DOMAIN content \ DOMAIN content' : i \notin DOMAIN inode']_vars

\* C17: a LookUpInode that finds the name writes one thing, the child's
\* inode row with the Nlink it held plus 1 and every other attribute as it
\* was: no entry list and no other row changes; one that does not find the
\* name returns ENOENT and writes nothing.
C17_LookUpAddsOneReference ==
  [][\A t \in Threads :
       (StepOf(t, "LookUpInode") /\ pc[t] # "idle") =>
         /\ content' = content
         /\ pc[t] # "lu_write" => inode' = inode
         /\ (pc[t] = "lu_children" /\ GetChildrenOk(content, op[t].inode))
              => IF HasLiveEntry(content, op[t].inode, op[t].nm)
                 THEN pc'[t] = "lu_child"
                 ELSE pc'[t] = "idle" /\ ret'[t] = "ENOENT"
         /\ pc[t] = "lu_write"
              => /\ loc[t].childID \in DOMAIN inode
                 /\ inode' = [inode EXCEPT ![loc[t].childID].Nlink = @ + 1]
                 /\ ret'[t] = "OK"]_vars

\* C18: when Unlink or RmDir returns success the name is no longer live in
\* the parent and the child's inode row is there with the Nlink it held less
\* 1 and marked ToBeDeleted; and an inode whose name was removed while the
\* kernel held a reference is from then on either marked ToBeDeleted or gone
\* from the store.
C18_UnlinkedIsMarkedOrGone ==
  [][/\ \A t \in Threads :
          (op[t].name \in {"Unlink", "RmDir"} /\ pc[t] # "idle" /\ pc'[t] = "idle"
             /\ ret'[t] = "OK") =>
            /\ ~HasLiveEntry(content', op[t].inode, op[t].nm)
            /\ loc[t].childID \in DOMAIN inode
            /\ loc[t].childID \in DOMAIN inode'
            /\ inode'[loc[t].childID].Nlink = inode[loc[t].childID].Nlink - 1
            /\ inode'[loc[t].childID].ToBeDeleted
     /\ \A i \in unlinked' : i \in DOMAIN inode' => inode'[i].ToBeDeleted]_vars

\* C19: no inode row marked ToBeDeleted is named by an entry that is not
\* free of any directory blob.
C19_TombstonesHaveNoName ==
  \A d \in DirsOfStore :
    \A k \in 1..Len(GetChildren(content, d)) :
      LET e == GetChildren(content, d)[k] IN
      (e.Type # DT_Unknown /\ e.Inode \in DOMAIN inode)
        => ~inode[e.Inode].ToBeDeleted

(***************************************************************************)
(* The root under the handlers that reach it (SpecRoot): SetInodeAttributes*)
(* with a mode and ForgetInode on inode 1, and MkDir, CreateFile, Rename,  *)
(* LookUpInode and Unlink with inode 1 as the parent, under the same two   *)
(* threads.  The mode of a SetInodeAttributes request carries the type of  *)
(* the inode it names, as the mode of a MkDir request carries os.ModeDir.  *)
(***************************************************************************)
InitRoot == InitFS /\ fuel = MaxOpsRoot /\ InitDirIdle

RootSetInodeAttributes(t) ==
  /\ Start(t, [NoOp EXCEPT !.name = "SetInodeAttributes", !.inode = 1,
                           !.hasMode = TRUE, !.mode = DirMode("0600")])
  /\ PidCheck(t, 1, "lock")
  /\ UNCHANGED <<inode, content, krefs, allocated, unlinked>>

\* The reference to the root belongs to the mount; krefs does not count it.
RootForgetInode(t) ==
  \E n \in 1..MaxForgetRoot :
    /\ Start(t, [NoOp EXCEPT !.name = "ForgetInode", !.inode = 1, !.n = n])
    /\ PidCheck(t, 1, "fg_get")
    /\ UNCHANGED <<inode, content, krefs, allocated, unlinked>>

RootMkDir(t) ==
  /\ Start(t, [NoOp EXCEPT !.name = "MkDir", !.inode = 1, !.nm = "b",
                           !.mode = DirMode("0644")])
  /\ PidCheck(t, 1, "lock")
  /\ UNCHANGED <<inode, content, krefs, allocated, unlinked>>

RootRename(t) ==
  \E oldName \in Names, newName \in Names :
    /\ Start(t, [NoOp EXCEPT !.name = "Rename", !.inode = 1, !.nm = oldName,
                             !.inode2 = 1, !.nm2 = newName])
    /\ PidCheck(t, 1, "lock")
    /\ UNCHANGED <<inode, content, krefs, allocated, unlinked>>

StepRoot(t) ==
  \/ StepLife(t)
  \/ RootSetInodeAttributes(t)
  \/ SetInodeAttributesGet(t)
  \/ SetAttributesWriteInode(t)
  \/ RootForgetInode(t)
  \/ RootMkDir(t)
  \/ CreateNewDir(t)
  \/ RootRename(t)
  \/ RenameOldParent(t)
  \/ RenameOldLookUp(t)
  \/ RenameNewParent(t)
  \/ RenameNewLookUp(t)
  \/ RenameExisting(t)
  \/ RenameReadDir(t)
  \/ RenameReadDirWrite(t)

NextRoot == \E t \in Threads : StepRoot(t)

SpecRoot == InitRoot /\ [][NextRoot]_vars

InitFile == InitFS /\ fuel = MaxOpsFile /\ InitDirIdle

FileBytes == {7, 8}
FileData ==
  UNION {[1..n -> FileBytes] : n \in 0..MaxFileData}

FileCreateFile(t) == CreateFileReq(t, 1, 1, "a", "0644")

FileWriteFile(t) ==
  \E id \in KnownFiles \ {1}, off \in 0..MaxFileOff, data \in FileData :
    /\ Start(t, [NoOp EXCEPT !.name = "WriteFile", !.inode = id, !.off = off,
                             !.data = data])
    /\ PidCheck(t, 1, "lock")
    /\ UNCHANGED <<inode, content, krefs, allocated, unlinked>>

FileReadFile(t) ==
  \E id \in KnownFiles \ {1}, off \in 0..MaxFileOff, len \in 0..(MaxFileOff + 1) :
    /\ Start(t, [NoOp EXCEPT !.name = "ReadFile", !.inode = id, !.off = off,
                             !.length = len])
    /\ PidCheck(t, 1, "lock")
    /\ UNCHANGED <<inode, content, krefs, allocated, unlinked>>

FileFallocate(t) ==
  \E id \in KnownFiles \ {1}, off \in 0..MaxFileOff, len \in 0..MaxFileOff :
    /\ Start(t, [NoOp EXCEPT !.name = "Fallocate", !.inode = id, !.fmode = 0,
                             !.off = off, !.length = len])
    /\ PidCheck(t, 1, "lock")
    /\ UNCHANGED <<inode, content, krefs, allocated, unlinked>>

\* ftruncate (size with a handle), truncate to 0, chmod, utimens and their
\* combinations.
FileSetattrArgs ==
  {[hasSize |-> hs, size |-> sz, handle |-> hs, hasMode |-> hm, hasMtime |-> ht]
     : hs \in BOOLEAN, sz \in 0..MaxFileOff, hm \in BOOLEAN, ht \in BOOLEAN}

FileSetInodeAttributes(t) ==
  \E id \in KnownFiles \ {1}, a \in FileSetattrArgs :
    /\ a.hasSize \/ a.size = 0
    /\ a.hasSize \/ a.hasMode \/ a.hasMtime
    /\ Start(t, [NoOp EXCEPT !.name = "SetInodeAttributes", !.inode = id,
                             !.hasSize = a.hasSize, !.size = a.size,
                             !.handle = a.handle, !.hasMode = a.hasMode,
                             !.mode = FileMode("0600"),
                             !.hasMtime = a.hasMtime, !.mtime = "t1"])
    /\ PidCheck(t, 1, "lock")
    /\ UNCHANGED <<inode, content, krefs, allocated, unlinked>>

FileGetInodeAttributes(t) ==
  \E id \in KnownFiles \ {1} :
    /\ Start(t, [NoOp EXCEPT !.name = "GetInodeAttributes", !.inode = id])
    /\ PidCheck(t, 1, "lock")
    /\ UNCHANGED <<inode, content, krefs, allocated, unlinked>>

StepFile(t) ==
  \/ Acquire(t)
  \/ FileCreateFile(t)
  \/ CreateParent(t)
  \/ CreateLookUp(t)
  \/ CreateNextInumber(t)
  \/ CreateNewInode(t)
  \/ AddChild(t)
  \/ FileWriteFile(t)
  \/ WriteFileGet(t)
  \/ WriteAtRead(t)
  \/ WriteAtWriteContent(t)
  \/ WriteAtWriteInode(t)
  \/ WriteFileWrite(t)
  \/ FileReadFile(t)
  \/ ReadFileGet(t)
  \/ ReadFileReadAt(t)
  \/ ReadFileWrite(t)
  \/ FileFallocate(t)
  \/ FallocateGet(t)
  \/ FallocateRead(t)
  \/ FallocateWriteInode(t)
  \/ FallocateWriteContent(t)
  \/ FileSetInodeAttributes(t)
  \/ SetInodeAttributesGet(t)
  \/ SetAttributesRead(t)
  \/ SetAttributesWriteContent(t)
  \/ SetAttributesWriteInode(t)
  \/ FileGetInodeAttributes(t)
  \/ GetInodeAttributesGet(t)
  \/ GetInodeAttributesWrite(t)

NextFile == StepFile("t1")

SpecFile == InitFile /\ [][NextFile]_vars

\* The bytes of a byte string at the positions off .. off + n - 1 (0-based).
BytesAt(bytes, off, n) == SubSeq(bytes, off + 1, off + n)

\* The handlers whose steps may change the blob of a file.
BlobWriters == {"WriteFile", "SetInodeAttributes", "Fallocate"}

\* C21: read-after-write.  When WriteFile stores the blob, the blob holds
\* the written bytes b at off; no step of a handler other than WriteFile,
\* SetInodeAttributes and Fallocate changes the blob of a file; and a
\* ReadFile whose buffer the blob fills from off hands back exactly the
\* blob's bytes at off.  So a read of len(b) bytes at off that follows the
\* write returns b.
C21_ReadAfterWrite ==
  [][\A t \in Threads :
       /\ (op[t].name = "WriteFile" /\ pc[t] = "wf_writec" /\ pc'[t] # pc[t])
            => BytesAt(ReadContent(content', op[t].inode), op[t].off,
                       Len(op[t].data)) = op[t].data
       /\ (op[t].name \notin BlobWriters /\ pc'[t] # pc[t])
            => \A i \in DOMAIN inode :
                 isFile(inode[i]) =>
                   ReadContent(content', i) = ReadContent(content, i)
       /\ (op[t].name = "ReadFile" /\ pc[t] = "rf_read" /\ pc'[t] # pc[t]
             /\ op[t].off + op[t].length <= Len(ReadContent(content, op[t].inode)))
            => /\ pc'[t] = "rf_write"
               /\ loc'[t].bytes = BytesAt(ReadContent(content, op[t].inode),
                                          op[t].off, op[t].length)]_vars

\* A ReadFile of 2 bytes at offset 1 hands back the bytes 7, 8 a WriteFile
\* put there.
C21_Witness ==
  \E t \in Threads :
    /\ op[t].name = "ReadFile"
    /\ pc[t] = "rf_write"
    /\ op[t].off = 1
    /\ op[t].length = 2
    /\ loc[t].bytes = <<7, 8>>

\* C22: when WriteAt stores the blob of a file whose blob was c, the new
\* blob has length max(len(c), off + len(b)), holds b on [off, off+len(b)),
\* c on every other position below len(c) and 0 on [len(c), off); the Size
\* WriteAt and the handler then write is the new length when the blob grew
\* and the Size of the row otherwise.
C22_WriteAtResult ==
  [][\A t \in Threads :
       (op[t].name = "WriteFile" /\ pc'[t] # pc[t]) =>
         LET id == op[t].inode
             b == op[t].data
             off == op[t].off
             c == ReadContent(content, id)
             d == ReadContent(content', id)
             end == off + Len(b)
         IN /\ pc[t] = "wf_writec" =>
                 /\ Len(d) = IF Len(c) > end THEN Len(c) ELSE end
                 /\ \A k \in 0..(Len(d) - 1) :
                      d[k + 1] = IF k >= off /\ k < end THEN b[k - off + 1]
                                 ELSE IF k < Len(c) THEN c[k + 1] ELSE 0
                 /\ loc[t].chi.Size = IF Len(d) > Len(c) THEN Len(d)
                                      ELSE inode[id].Size
            /\ pc[t] \in {"wf_write1", "wf_write2"} =>
                 /\ inode'[id].Size = loc[t].chi.Size
                 /\ d = c
            /\ pc'[t] = "idle" => ret'[t] = "OK"]_vars

\* WriteAt has put the byte 8 at offset 2 of a file whose blob was the one
\* byte 7: the blob is 7, 0, 8.
C22_Witness ==
  \E t \in Threads :
    /\ op[t].name = "WriteFile"
    /\ pc[t] = "wf_write1"
    /\ op[t].off = 2
    /\ op[t].data = <<8>>
    /\ ReadContent(content, op[t].inode) = <<7, 0, 8>>
    /\ loc[t].chi.Size = 3

\* C23: when SetAttributes with a size s stores the blob of a file whose
\* blob was c, the new blob is the first s bytes of c when s <= len(c) and
\* c followed by s - len(c) zero bytes otherwise; the row it then writes has
\* Size s; ReadAt from offset 0 into a buffer of s + 1 bytes gets exactly s
\* bytes with io.EOF, and a ReadFile at offset 0 with a buffer longer than
\* the blob is a short read the handler answers with success.
C23_TruncateResult ==
  [][\A t \in Threads :
       /\ (op[t].name = "SetInodeAttributes" /\ op[t].hasSize /\ pc'[t] # pc[t]) =>
            LET id == op[t].inode
                s == op[t].size
                c == ReadContent(content, id)
                d == ReadContent(content', id)
            IN /\ pc[t] = "sa_writec" =>
                    /\ Len(d) = s
                    /\ \A k \in 1..s : d[k] = IF k <= Len(c) THEN c[k] ELSE 0
                    /\ Len(ReadAt(d, 0, s + 1).data) = s
                    /\ ReadAt(d, 0, s + 1).data = d
                    /\ ReadAt(d, 0, s + 1).eof
               /\ pc[t] = "sa_write" =>
                    /\ inode'[id].Size = s
                    /\ d = c
                    /\ Len(c) = s
       /\ (op[t].name = "ReadFile" /\ pc[t] = "rf_read" /\ pc'[t] # pc[t]
             /\ op[t].off = 0
             /\ op[t].length > Len(ReadContent(content, op[t].inode)))
            => pc'[t] = "idle" /\ ret'[t] = "OK"]_vars

\* SetAttributes with size 2 has made the blob 8, 0 and is about to write
\* the row.
C23_Witness ==
  \E t \in Threads :
    /\ op[t].name = "SetInodeAttributes"
    /\ pc[t] = "sa_write"
    /\ op[t].hasSize
    /\ op[t].size = 2
    /\ ReadContent(content, op[t].inode) = <<8, 0>>

BlobWriteAt == {"ac_putc", "rc_putc", "wf_writec", "sa_writec", "fa_writec", "cr_newdir"}
RowWriteAt == {"ac_puti", "rc_puti", "wf_write1", "sa_write", "fa_writei", "cr_newinode"}

\* C26: in an operation that writes a blob and an inode row the blob goes
\* first: the step after its blob write is its inode write, and the step
\* after its inode write is never its blob write.
C26_BlobBeforeInode ==
  [][\A t \in Threads :
       /\ (pc[t] \in BlobWriteAt /\ pc'[t] # pc[t]) => pc'[t] \in RowWriteAt
       /\ (pc[t] \in RowWriteAt /\ pc'[t] # pc[t]) => pc'[t] \notin BlobWriteAt]_vars

(***************************************************************************)
(* Requests that name an inode of the other type (SpecType): the file      *)
(* requests ReadFile, WriteFile, Fallocate and SetInodeAttributes with a   *)
(* size name the root, and the directory requests LookUpInode, MkDir,      *)
(* Unlink and ReadDir name the file "a" as the directory; RmDir names "a"  *)
(* as the directory to remove.  One handler after the other.               *)
(***************************************************************************)
InitType == InitFS /\ fuel = MaxOpsType /\ InitDirIdle

TypeCreateFile(t) == CreateFileReq(t, 1, 1, "a", "0644")

TypeRequest(t, request) ==
  /\ Start(t, request)
  /\ PidCheck(t, 1, "lock")
  /\ UNCHANGED <<inode, content, krefs, allocated, unlinked>>

TypeReadFile(t) ==
  TypeRequest(t, [NoOp EXCEPT !.name = "ReadFile", !.inode = 1, !.length = 1])

TypeWriteFile(t) ==
  TypeRequest(t, [NoOp EXCEPT !.name = "WriteFile", !.inode = 1, !.data = <<7>>])

TypeFallocate(t) ==
  \E len \in 0..(MaxOff + 2) :
    TypeRequest(t, [NoOp EXCEPT !.name = "Fallocate", !.inode = 1, !.length = len])

TypeSetInodeAttributes(t) ==
  \E s \in 0..(MaxOff + 2) :
    TypeRequest(t, [NoOp EXCEPT !.name = "SetInodeAttributes", !.inode = 1,
                                !.hasSize = TRUE, !.size = s, !.handle = TRUE])

TypeLookUpInode(t) ==
  \E id \in KnownFiles \ {1} :
    TypeRequest(t, [NoOp EXCEPT !.name = "LookUpInode", !.inode = id, !.nm = "a"])

TypeMkDir(t) ==
  \E id \in KnownFiles \ {1} :
    TypeRequest(t, [NoOp EXCEPT !.name = "MkDir", !.inode = id, !.nm = "a",
                                !.mode = DirMode("0644")])

TypeUnlink(t) ==
  \E id \in KnownFiles \ {1} :
    TypeRequest(t, [NoOp EXCEPT !.name = "Unlink", !.inode = id, !.nm = "a"])

TypeReadDir(t) ==
  \E id \in KnownFiles \ {1} :
    TypeRequest(t, [NoOp EXCEPT !.name = "ReadDir", !.inode = id,
                                !.room = RenameBufSize])

TypeRmDir(t) ==
  TypeRequest(t, [NoOp EXCEPT !.name = "RmDir", !.inode = 1, !.nm = "a"])

StepType(t) ==
  \/ Acquire(t)
  \/ TypeCreateFile(t)
  \/ CreateParent(t)
  \/ CreateLookUp(t)
  \/ CreateNextInumber(t)
  \/ CreateNewInode(t)
  \/ AddChild(t)
  \/ TypeReadFile(t)
  \/ ReadFileGet(t)
  \/ ReadFileReadAt(t)
  \/ TypeWriteFile(t)
  \/ WriteFileGet(t)
  \/ WriteAtRead(t)
  \/ TypeFallocate(t)
  \/ FallocateGet(t)
  \/ FallocateRead(t)
  \/ FallocateWriteInode(t)
  \/ FallocateWriteContent(t)
  \/ TypeSetInodeAttributes(t)
  \/ SetInodeAttributesGet(t)
  \/ SetAttributesRead(t)
  \/ SetAttributesWriteContent(t)
  \/ SetAttributesWriteInode(t)
  \/ TypeLookUpInode(t)
  \/ LookUpInodeParent(t)
  \/ LookUpInodeChildren(t)
  \/ TypeMkDir(t)
  \/ TypeUnlink(t)
  \/ TypeRmDir(t)
  \/ RemoveParent(t)
  \/ RemoveLookUp(t)
  \/ RemoveChildInode(t)
  \/ RmDirLen(t)
  \/ TypeReadDir(t)
  \/ ReadDirGet(t)
  \/ ReadDirChildren(t)

NextType == StepType("t1")

SpecType == InitType /\ [][NextType]_vars

\* The request of thread t applies a file operation to a directory inode,
\* or a directory operation to a regular-file inode.
FileOpOnDir(t) ==
  /\ \/ op[t].name \in {"ReadFile", "WriteFile", "Fallocate"}
     \/ op[t].name = "SetInodeAttributes" /\ op[t].hasSize
  /\ op[t].inode \in DOMAIN inode
  /\ isDir(inode[op[t].inode])

DirOpOnFile(t) ==
  \/ /\ op[t].name \in {"LookUpInode", "MkDir", "MkNode", "CreateFile", "Unlink",
                        "RmDir", "ReadDir", "Rename"}
     /\ op[t].inode \in DOMAIN inode
     /\ isFile(inode[op[t].inode])
  \/ /\ op[t].name = "RmDir"
     /\ pc[t] = "rm_len"
     /\ isFile(loc[t].chi)

\* C27: no step of a handler that applies a file operation to a directory,
\* or a directory operation to a regular file, writes to the store, and
\* none returns: the handler ends in a panic.
C27_TypeMismatchIsFatal ==
  [][\A t \in Threads :
       ((FileOpOnDir(t) \/ DirOpOnFile(t)) /\ pc'[t] # pc[t]) =>
         /\ UNCHANGED <<inode, content>>
         /\ pc'[t] # "idle"]_vars

\* C28: the blob of every directory inode that has one unmarshals into an
\* entry list.
C28_DirBlobsDecode ==
  \A i \in DOMAIN inode :
    (isDir(inode[i]) /\ i \in DOMAIN content) => content[i].json

(***************************************************************************)
(* SpecNames with its scheduling: a goroutine that runs a handler takes    *)
(* its next step, and sync.Mutex hands the lock to a goroutine that keeps  *)
(* waiting for it (a waiter is not starved by later arrivals).             *)
(***************************************************************************)
Running(t) == StepNames(t) /\ pc[t] \notin {"idle", "lock"}

FairNames == \A t \in Threads : WF_vars(Running(t)) /\ SF_vars(Acquire(t))

SpecNamesFair == SpecNames /\ FairNames

C30_NlinkNotNegative == \A i \in DOMAIN inode : inode[i].Nlink >= 0

(***************************************************************************)
(* Lookups, forgets and writes racing on one file: CreateFile of "a" in    *)
(* the root, then LookUpInode of "a", WriteFile to it and ForgetInode of   *)
(* it on the two threads.  No name is removed here, so a handler run alone *)
(* keeps the Nlink of the row at the number of references the kernel holds.*)
(* No row is ever marked ToBeDeleted, so ForgetInode ends with DecrRef.    *)
(***************************************************************************)
\* handler invocations dispatched in one behaviour of SpecRace
MaxOpsRace == 4

InitRace == InitFS /\ fuel = MaxOpsRace /\ InitDirIdle

RaceWriteFile(t) ==
  \E id \in KnownFiles \ {1}, off \in 0..MaxOff, n \in 1..MaxData :
    /\ Start(t, [NoOp EXCEPT !.name = "WriteFile", !.pid = 1, !.inode = id,
                             !.off = off, !.data = [k \in 1..n |-> 7]])
    /\ PidCheck(t, 1, "lock")
    /\ UNCHANGED <<inode, content, krefs, allocated, unlinked>>

StepRace(t) ==
  \/ Acquire(t)
  \/ LifeCreateFile(t)
  \/ CreateParent(t)
  \/ CreateLookUp(t)
  \/ CreateNextInumber(t)
  \/ CreateNewInode(t)
  \/ AddChild(t)
  \/ LifeLookUpInode(t)
  \/ LookUpInodeParent(t)
  \/ LookUpInodeChildren(t)
  \/ LookUpInodeChild(t)
  \/ LookUpInodeWrite(t)
  \/ RaceWriteFile(t)
  \/ WriteFileGet(t)
  \/ WriteAtRead(t)
  \/ WriteAtWriteContent(t)
  \/ WriteAtWriteInode(t)
  \/ WriteFileWrite(t)
  \/ LifeForgetInode(t)
  \/ ForgetInodeGet(t)
  \/ ForgetInodeDecrRef(t)

NextRace == \E t \in Threads : StepRace(t)

SpecRace == InitRace /\ [][NextRace]_vars

\* The same requests one after the other.
NextRaceSeq == StepRace("t1")

SpecRaceSeq == InitRace /\ [][NextRaceSeq]_vars

\* C31: once the handlers dispatched on the two threads have all returned,
\* the store is as if they had run one after another: the Nlink of the file
\* is 1 for its creation plus the lookups that found it less the references
\* forgotten (what the kernel still holds), and its Size is the length of
\* the blob the last write persisted.  No lookup, forget or write is lost.
C31_ConcurrentAsSequential ==
  Quiescent =>
    \A i \in DOMAIN inode \ {1} :
      /\ inode[i].Nlink = KRef(i)
      /\ inode[i].Size = Len(ReadContent(content, i))

\* C32: the Nlink of an inode row that stays in the store changes only in a
\* step of MkDir, MkNode, CreateFile, Unlink or RmDir; no step of
\* LookUpInode or ForgetInode writes a row with another Nlink than it had.
C32_NlinkOnlyByLinking ==
  [][\A i \in DOMAIN inode \cap DOMAIN inode' :
       inode'[i].Nlink # inode[i].Nlink =>
         \E t \in Threads :
           /\ pc'[t] # pc[t]
           /\ op[t].name \in {"MkDir", "MkNode", "CreateFile", "Unlink", "RmDir"}]_vars

\* The number of bytes a read of len bytes at off finds in a file of size s.
Available(s, off, len) ==
  IF s - off <= 0 THEN 0 ELSE IF s - off < len THEN s - off ELSE len

\* C33: a ReadFile of a buffer of L bytes at offset off on a file whose row
\* has Size s never panics and never returns an error: ReadAt yields exactly
\* max(0, min(L, s - off)) bytes, the bytes of the blob from off on, and the
\* handler returns OK, at once when ReadAt reported io.EOF and after its
\* write of the row otherwise.
C33_ShortReadSucceeds ==
  [][\A t \in Threads :
       (op[t].name = "ReadFile" /\ pc'[t] # pc[t]) =>
         LET id == op[t].inode
             blob == ReadContent(content, id)
             n == Available(inode[id].Size, op[t].off, op[t].length)
             r == ReadAt(blob, op[t].off, op[t].length)
         IN /\ pc'[t] # "panic"
            /\ pc'[t] = "idle" => ret'[t] = "OK"
            /\ pc[t] = "rf_read" =>
                 /\ id \in DOMAIN inode
                 /\ Len(r.data) = n
                 /\ r.data = BytesAt(blob, op[t].off, n)
                 /\ pc'[t] = (IF r.eof THEN "idle" ELSE "rf_write")
                 /\ pc'[t] = "rf_write" => loc'[t].bytes = r.data]_vars

\* A ReadFile of 2 bytes at offset 1 is about to be served from a file of
\* 2 bytes (one byte is there to read), and one of 1 byte at offset 2 from
\* a file of 1 byte (the offset is past the end).
C33_Witness ==
  \E t \in Threads :
    /\ op[t].name = "ReadFile"
    /\ pc[t] = "rf_read"
    /\ op[t].inode \in DOMAIN inode
    /\ \/ op[t].off = 1 /\ op[t].length = 2 /\ inode[op[t].inode].Size = 2
       \/ op[t].off = 2 /\ op[t].length = 1 /\ inode[op[t].inode].Size = 1

\* The entry list of `parent` has an entry `name` that is not free and
\* names the inode id.
EntryNames(ctbl, parent, name, id) ==
  /\ GetChildrenOk(ctbl, parent)
  /\ LET r == LookUpChild(GetChildren(ctbl, parent), name) IN
     r.ok /\ r.typ # DT_Unknown /\ r.id = id

\* Rename has found the inode to move and has not yet returned.
Moving(t) ==
  /\ op[t].name = "Rename"
  /\ pc[t] \in {"rn_newparent", "rn_newlookup", "rn_existing", "rn_readdir",
                "rn_readdirw", "rc_get", "rc_putc", "rc_puti",
                "ac_get", "ac_putc", "ac_puti"}

\* C34: from the moment Rename has found the inode to move until it
\* returns, in every state of the store the inode is named by old_name in
\* old_parent or by new_name in new_parent (or both): the new name is
\* linked before the old one is removed.
C34_MovedInodeKeepsAName ==
  \A t \in Threads :
    Moving(t) =>
      \/ EntryNames(content, op[t].inode, op[t].nm, loc[t].childID)
      \/ EntryNames(content, op[t].inode2, op[t].nm2, loc[t].childID)

(***************************************************************************)
(* Mounting (SpecMount).  NewImmufs runs on the store it finds: a fresh    *)
(* one at first, later the one the handlers of an earlier mount left.  Its *)
(* GetInode(1) finds the row, reports ErrInodeNotFound when the query has  *)
(* no row, or fails with another error (the query or the scan failed),     *)
(* which may happen on any store.  Between mounts one thread serves MkDir, *)
(* MkNode, CreateFile, Rename, RmDir and Unlink requests.  An unmount ends *)
(* the process: the lock, the kernel's references and the histories of     *)
(* this process go, the store stays.                                       *)
(***************************************************************************)
\* handler invocations, unmounts and failed mounts in one behaviour
MaxOpsMount == 4

InitMount ==
  /\ inode = [i \in {} |-> NilInode]
  /\ content = [i \in {} |-> FileBlob(<<>>)]
  /\ mu = NoThread
  /\ pc = [t \in Threads |-> IF t = "t1" THEN "mt_get" ELSE "idle"]
  /\ op = [t \in Threads |-> NoOp]
  /\ loc = [t \in Threads |-> NoLoc]
  /\ ret = [t \in Threads |-> "none"]
  /\ alive = TRUE
  /\ krefs = [i \in {} |-> 0]
  /\ allocated = <<>>
  /\ unlinked = {}
  /\ fuel = MaxOpsMount
  /\ InitDirIdle

\* A NewImmufs that sets up the root whenever the fetch did not yield it.
RootOnAnyError(t) ==
  /\ At(t, "mt_get")
  /\ \/ /\ 1 \in DOMAIN inode
        /\ pc' = [pc EXCEPT ![t] = "idle"]
        /\ ret' = [ret EXCEPT ![t] = "mounted"]
     \/ /\ pc' = [pc EXCEPT ![t] = "mt_newinode"]
        /\ UNCHANGED ret
  /\ UNCHANGED <<inode, content, mu, op, loc, alive, krefs, allocated, unlinked,
                 fuel, dvars>>

\* _, err = fs.idb.GetInode(ctx, 1): nil, ErrInodeNotFound or another error
NewImmufsGet(t) ==
  /\ At(t, "mt_get")
  /\ \/ /\ 1 \in DOMAIN inode
        /\ pc' = [pc EXCEPT ![t] = "idle"]
        /\ ret' = [ret EXCEPT ![t] = "mounted"]
     \/ /\ 1 \notin DOMAIN inode
        /\ pc' = [pc EXCEPT ![t] = "mt_newinode"]
        /\ UNCHANGED ret
     \/ /\ pc' = [pc EXCEPT ![t] = "mt_failed"]
        /\ ret' = [ret EXCEPT ![t] = "error"]
  /\ UNCHANGED <<inode, content, mu, op, loc, alive, krefs, allocated, unlinked,
                 fuel, dvars>>

\* root := NewInode(fuseops.RootInodeID, rootAttrs, fs.idb): inode.writeOrDie()
NewImmufsNewInode(t) ==
  /\ At(t, "mt_newinode")
  /\ inode' = Upsert(inode, 1, RootInode)
  /\ pc' = [pc EXCEPT ![t] = "mt_newdir"]
  /\ UNCHANGED <<content, mu, op, loc, ret, alive, krefs, allocated, unlinked,
                 fuel, dvars>>

\* NewInode: inode.writeChildrenOrDie([]fuseutil.Dirent{})
NewImmufsNewDir(t) ==
  /\ At(t, "mt_newdir")
  /\ content' = Upsert(content, 1, DirBlob(<<>>))
  /\ pc' = [pc EXCEPT ![t] = "mt_rootents"]
  /\ UNCHANGED <<inode, mu, op, loc, ret, alive, krefs, allocated, unlinked,
                 fuel, dvars>>

\* root.writeChildrenOrDie(rootEnts); return fs, nil
NewImmufsRootEnts(t) ==
  /\ At(t, "mt_rootents")
  /\ content' = Upsert(content, 1, DirBlob(<<>>))
  /\ pc' = [pc EXCEPT ![t] = "idle"]
  /\ ret' = [ret EXCEPT ![t] = "mounted"]
  /\ UNCHANGED <<inode, mu, op, loc, alive, krefs, allocated, unlinked,
                 fuel, dvars>>

\* The filesystem is unmounted, or a mount that failed is given up, and
\* NewImmufs is started again on the store as it is.
Remount(t) ==
  /\ alive
  /\ pc[t] \in {"idle", "mt_failed"}
  /\ fuel > 0
  /\ fuel' = fuel - 1
  /\ pc' = [pc EXCEPT ![t] = "mt_get"]
  /\ ret' = [ret EXCEPT ![t] = "none"]
  /\ krefs' = [i \in {} |-> 0]
  /\ allocated' = <<>>
  /\ unlinked' = {}
  /\ UNCHANGED <<inode, content, mu, op, loc, alive, dvars>>

StepMount(t) ==
  \/ NewImmufsGet(t)
  \/ NewImmufsNewInode(t)
  \/ NewImmufsNewDir(t)
  \/ NewImmufsRootEnts(t)
  \/ Remount(t)
  \/ StepNames(t)

NextMount == StepMount("t1")

SpecMount == InitMount /\ [][NextMount]_vars

\* NewImmufs is running.
Mounting(t) == pc[t] \in {"mt_get", "mt_newinode", "mt_newdir", "mt_rootents"}

\* C35: NewImmufs goes on to create the root only when its fetch found no
\* row of inode 1; the root it has created by the time it returns is a
\* directory of mode 0700 with the configured uid and gid, Nlink 1 and an
\* entry list that decodes to the empty list; when the row of inode 1 is
\* there, and when the fetch fails with another error, it returns (with
\* success and with the error) and the store is as it was.
C35_RootCreatedOnlyWhenAbsent ==
  [][\A t \in Threads :
       (Mounting(t) /\ pc'[t] # pc[t]) =>
         /\ pc[t] = "mt_get" =>
              /\ store' = store
              /\ pc'[t] = "mt_newinode" => 1 \notin DOMAIN inode
              /\ 1 \in DOMAIN inode => pc'[t] \in {"idle", "mt_failed"}
              /\ pc'[t] = "idle" => 1 \in DOMAIN inode /\ ret'[t] = "mounted"
              /\ pc'[t] = "mt_failed" => ret'[t] = "error"
         /\ (pc[t] = "mt_rootents" /\ pc'[t] = "idle") =>
              /\ ret'[t] = "mounted"
              /\ 1 \in DOMAIN inode'
              /\ inode'[1].Mode = DirMode("0700")
              /\ inode'[1].Uid = CfgUid
              /\ inode'[1].Gid = CfgGid
              /\ ~inode'[1].ToBeDeleted
              /\ GetChildrenOk(content', 1)
              /\ GetChildren(content', 1) = <<>>]_vars

\* A second mount has returned on a store in which the root has a live
\* entry: this process allocated no inode, the entry is from before.
C35_Witness ==
  /\ pc["t1"] = "idle"
  /\ ret["t1"] = "mounted"
  /\ allocated = <<>>
  /\ \E name \in Names : HasLiveEntry(content, 1, name)

\* The entries of a directory blob that are not free, as name, inumber and
\* type.
LiveEntries(ctbl, d) ==
  IF GetChildrenOk(ctbl, d)
  THEN {<<e.Name, e.Inode, e.Type>> :
          e \in {GetChildren(ctbl, d)[k] : k \in
                   {j \in 1..Len(GetChildren(ctbl, d)) :
                      GetChildren(ctbl, d)[j].Type # DT_Unknown}}}
  ELSE {}

\* C36: when MkDir, MkNode or CreateFile returns success the store holds
\* the child's inode row with Nlink 1 and ToBeDeleted false, of the type
\* the handler creates; the blob of a new directory decodes to the empty
\* entry list (its Len is 0); and the step that wrote the parent's entry
\* list added to its live entries one entry, the requested name with the
\* child's inumber and type, which is there at the return and is the only
\* live entry of the parent that names the child.
C36_CreatedChildIsPersisted ==
  [][\A t \in Threads :
       CreationStep(t) =>
         LET child == loc[t].childID
             dt == IF op[t].name = "MkDir" THEN DT_Directory ELSE DT_File
             new == <<op[t].nm, child, dt>>
         IN /\ pc[t] = "ac_putc" =>
                 /\ new \notin LiveEntries(content, op[t].inode)
                 /\ LiveEntries(content', op[t].inode)
                      = LiveEntries(content, op[t].inode) \cup {new}
            /\ (pc'[t] = "idle" /\ ret'[t] = "OK") =>
                 /\ child \in DOMAIN inode'
                 /\ inode'[child].Nlink = 1
                 /\ ~inode'[child].ToBeDeleted
                 /\ isDir(inode'[child]) <=> op[t].name = "MkDir"
                 /\ op[t].name = "MkDir" =>
                      /\ GetChildrenOk(content', child)
                      /\ GetChildren(content', child) = <<>>
                      /\ DirLen(GetChildren(content', child)) = 0
                 /\ {e \in LiveEntries(content', op[t].inode) : e[2] = child}
                      = {new}]_vars

\* C37: no step erases the inode row of an inumber to which the kernel
\* still holds a reference (the entry replies that returned it outnumber
\* the references of the forgets dispatched for it, the one being served
\* included), and no ForgetInode finds the row of its inumber gone.
C37_NoPrematureErasure ==
  [][/\ \A i \in DOMAIN inode \ DOMAIN inode' : KRef(i) = 0
     /\ \A t \in Threads :
          (op[t].name = "ForgetInode" /\ pc[t] = "fg_get" /\ pc'[t] # pc[t])
            => op[t].inode \in DOMAIN inode]_vars

\* The slots that name inode i: a directory of the store that is not marked
\* ToBeDeleted and the position of an entry of its list that is not free
\* and carries i.
NamingSlots(i) ==
  {s \in UNION {{<<d, k>> : k \in 1..Len(GetChildren(content, d))} :
                  d \in {x \in DirsOfStore : ~inode[x].ToBeDeleted}} :
     /\ GetChildren(content, s[1])[s[2]].Type # DT_Unknown
     /\ GetChildren(content, s[1])[s[2]].Inode = i}

\* C38: when no handler is running, every inode row other than the root
\* that is not marked ToBeDeleted is named by exactly one live entry of a
\* directory of the store.
C38_NoOrphans ==
  Quiescent =>
    \A i \in DOMAIN inode \ {1} :
      ~inode[i].ToBeDeleted => Cardinality(NamingSlots(i)) = 1

\* The handler of thread t is a MkDir, MkNode or CreateFile that has been
\* allocated an inumber and has not returned.
Allocated(t) ==
  /\ op[t].name \in {"MkDir", "MkNode", "CreateFile"}
  /\ pc[t] \in {"cr_newinode", "cr_newdir", "ac_get", "ac_putc", "ac_puti"}

WrittenByRename(t) ==
  IF pc[t] \in {"ac_putc", "ac_puti"} THEN AddChildObj(t).Inumber
  ELSE IF pc[t] \in {"rc_putc", "rc_puti"} THEN RemoveChildObj(t).Inumber
  ELSE IF pc[t] = "rn_readdirw" THEN loc[t].chi.Inumber
  ELSE 0

\* What every step of a Rename leaves alone: no row and no blob comes or
\* goes, a row or blob other than the one the step writes is unchanged, and
\* a row that is written keeps everything but its timestamps.
RenameFrame(t) ==
  /\ DOMAIN inode' = DOMAIN inode
  /\ DOMAIN content' = DOMAIN content
  /\ \A i \in DOMAIN inode :
       /\ i # WrittenByRename(t) => inode'[i] = inode[i]
       /\ inode'[i] = [inode[i] EXCEPT !.Mtime = inode'[i].Mtime]
  /\ \A i \in DOMAIN content :
       (i # WrittenByRename(t) \/ pc[t] \notin {"ac_putc", "rc_putc"})
         => content'[i] = content[i]

\* C40 as stated: a Rename that is not turned away writes the rows and the
\* entry lists of old_parent and new_parent only; the record and the blob
\* of the moved inode and of every other directory are not written.
C40_RenameWritesParentsOnly ==
  [][\A t \in Threads :
       (StepOf(t, "Rename") /\ pc'[t] # "panic"
          /\ ~(pc[t] = "rn_readdirw" /\ pc'[t] = "idle")) =>
         /\ RenameFrame(t)
         /\ WrittenByRename(t) \in {0, op[t].inode, op[t].inode2}]_vars

\* C40, amended: besides old_parent and new_parent a Rename writes the row
\* of an existing target that is a directory (ReadDir, called to see that
\* it is empty, sets its Atime); that row keeps its inumber, size, nlink,
\* mode and ToBeDeleted, and no other row and no other blob is written.
C40_RenameWritesParentsAndTarget ==
  [][\A t \in Threads :
       (StepOf(t, "Rename") /\ pc'[t] # "panic"
          /\ ~(pc[t] = "rn_readdirw" /\ pc'[t] = "idle")) =>
         /\ RenameFrame(t)
         /\ \/ WrittenByRename(t) \in {0, op[t].inode, op[t].inode2}
            \/ /\ pc[t] = "rn_readdirw"
               /\ WrittenByRename(t) = loc[t].existingID
               /\ isDir(inode[loc[t].existingID])]_vars

\* A Rename onto the name of an empty directory has written the row of
\* that directory and is about to remove its entry from the new parent.
C40_Witness ==
  \E t \in Threads :
    /\ op[t].name = "Rename"
    /\ pc[t] = "rc_get"
    /\ loc[t].phase = "existing"
    /\ loc[t].existingID \in DOMAIN inode
    /\ isDir(inode[loc[t].existingID])
    /\ loc[t].existingID \notin {op[t].inode, op[t].inode2, loc[t].childID}

====
